---------------------------- MODULE Spec2Model ----------------------------
(***************************************************************************)
(* A model of prtool's retrieval pipeline: configuration merge, scope      *)
(* validation, relative time-window parsing, repository enumeration and    *)
(* pull-request collection.                                                *)
(*                                                                         *)
(* Go strings are sequences of one-character strings, so that splitting,   *)
(* trimming, prefix tests and case folding are computed and not assumed.   *)
(* The source tree holds two iterations of several functions (MergeConfig, *)
(* ParseRelativeDuration, ResolveRepos, ListRepos, ListPRs); both are      *)
(* modelled, the second under the name of the first with a suffix naming   *)
(* what distinguishes it.  Fetch runs with the iteration of each that      *)
(* reports the most; the other is exercised on its own.                    *)
(***************************************************************************)
EXTENDS Integers, Sequences, FiniteSets, TLC

(***************************************************************************)
(* Bounds of the model.                                                    *)
(***************************************************************************)
\* Repositories an owner's or team's listing can report.
MaxRepos == 3
\* Pull requests the upstream listing of one repository can hold.
MaxPRs == 2

(***************************************************************************)
(* Strings.                                                                *)
(***************************************************************************)
Empty == <<>>

Digits == {"0", "1", "2", "3", "4", "5", "6", "7", "8", "9"}

UpperSeq ==
    <<"A", "B", "C", "D", "E", "F", "G", "H", "I", "J", "K", "L", "M",
      "N", "O", "P", "Q", "R", "S", "T", "U", "V", "W", "X", "Y", "Z">>

LowerSeq ==
    <<"a", "b", "c", "d", "e", "f", "g", "h", "i", "j", "k", "l", "m",
      "n", "o", "p", "q", "r", "s", "t", "u", "v", "w", "x", "y", "z">>

Letters == {UpperSeq[i] : i \in 1..26} \cup {LowerSeq[i] : i \in 1..26}

\* strings.HasPrefix
HasPrefix(s, p) ==
    Len(s) >= Len(p) /\ SubSeq(s, 1, Len(p)) = p

\* strings.HasSuffix
HasSuffix(s, p) ==
    Len(s) >= Len(p) /\ SubSeq(s, Len(s) - Len(p) + 1, Len(s)) = p

\* strings.TrimSuffix
TrimSuffix(s, p) ==
    IF HasSuffix(s, p) THEN SubSeq(s, 1, Len(s) - Len(p)) ELSE s

\* strings.ToLower on one character
LowerChar(c) ==
    IF \E i \in 1..26 : UpperSeq[i] = c
    THEN LowerSeq[CHOOSE i \in 1..26 : UpperSeq[i] = c]
    ELSE c

\* strings.ToLower
ToLower(s) == [i \in 1..Len(s) |-> LowerChar(s[i])]

\* strings.Split(s, sep) for a one-character separator: the pieces between
\* the separators, empty pieces kept.
RECURSIVE SplitFrom(_, _, _, _)
SplitFrom(s, sep, i, cur) ==
    IF i > Len(s) THEN <<cur>>
    ELSE IF s[i] = sep THEN <<cur>> \o SplitFrom(s, sep, i + 1, <<>>)
    ELSE SplitFrom(s, sep, i + 1, Append(cur, s[i]))

Split(s, sep) == SplitFrom(s, sep, 1, <<>>)

\* strings.Join(parts, sep)
RECURSIVE Join(_, _)
Join(parts, sep) ==
    IF parts = <<>> THEN <<>>
    ELSE IF Len(parts) = 1 THEN parts[1]
    ELSE parts[1] \o sep \o Join(Tail(parts), sep)

(***************************************************************************)
(* Configuration (internal/config).                                        *)
(***************************************************************************)
StringFields ==
    {"GitHubToken", "Org", "Team", "User", "Repo", "Since", "LLMProvider",
     "LLMAPIKey", "LLMModel", "Prompt", "Output", "LogFile"}

BoolFields == {"DryRun", "Verbose", "CI"}

Fields == StringFields \cup BoolFields

\* The zero value of Config: what &Config{} holds.
ZeroConfig ==
    [f \in Fields |-> IF f \in BoolFields THEN FALSE ELSE Empty]

\* A nil *Config.
Nil == [nil |-> TRUE]

\* A pointer to a value inside a structure: None is nil, Some(v) points to v.
None == <<>>

Some(v) == <<v>>

S_7d == <<"-", "7", "d">>
S_openai == <<"o", "p", "e", "n", "a", "i">>
S_gpt ==
    <<"g", "p", "t", "-", "3", ".", "5", "-", "t", "u", "r", "b", "o">>

\* The values BindFlags gives the flags that are not passed: empty, but for
\* since, llm-provider and llm-model.
FlagDefault(f) ==
    CASE f = "Since" -> S_7d
      [] f = "LLMProvider" -> S_openai
      [] f = "LLMModel" -> S_gpt
      [] f \in BoolFields -> FALSE
      [] OTHER -> Empty

BindFlags == [f \in Fields |-> FlagDefault(f)]

\* firstNonEmpty(values ...string)
RECURSIVE firstNonEmpty(_)
firstNonEmpty(values) ==
    IF values = <<>> THEN Empty
    ELSE IF Head(values) # Empty THEN Head(values)
    ELSE firstNonEmpty(Tail(values))

\* firstBool(values ...bool): the first true value, or the last value.
RECURSIVE firstBoolFrom(_, _)
firstBoolFrom(values, i) ==
    IF i > Len(values) THEN FALSE
    ELSE IF values[i] \/ i = Len(values) THEN values[i]
    ELSE firstBoolFrom(values, i + 1)

\* A firstBool that returns the value of the source of highest precedence.
firstBoolOfFirst(values) == IF values = <<>> THEN FALSE ELSE values[1]

firstBool(values) == firstBoolFrom(values, 1)

\* A merge that takes the four scope fields together from the source of
\* highest precedence that sets one of them.
MergeConfigScopeExclusive(cliConfig, envConfig, yamlConfig) ==
    LET cli == IF cliConfig = Nil THEN ZeroConfig ELSE cliConfig
        env == IF envConfig = Nil THEN ZeroConfig ELSE envConfig
        yaml == IF yamlConfig = Nil THEN ZeroConfig ELSE yamlConfig
        scopeFields == {"Org", "Team", "User", "Repo"}
        scoped(c) == \E f \in scopeFields : c[f] # Empty
        owner == IF scoped(cli) THEN cli ELSE IF scoped(env) THEN env ELSE yaml
    IN  [f \in Fields |->
            IF f \in scopeFields THEN owner[f]
            ELSE IF f \in BoolFields
            THEN firstBool(<<cli[f], env[f], yaml[f]>>)
            ELSE firstNonEmpty(<<cli[f], env[f], yaml[f]>>)]

\* MergeConfig of the iteration that folds each field with firstNonEmpty and
\* firstBool; a nil source is replaced by &Config{}.
MergeConfig(cliConfig, envConfig, yamlConfig) ==
    LET cli == IF cliConfig = Nil THEN ZeroConfig ELSE cliConfig
        env == IF envConfig = Nil THEN ZeroConfig ELSE envConfig
        yaml == IF yamlConfig = Nil THEN ZeroConfig ELSE yamlConfig
    IN  [f \in Fields |->
            IF f \in BoolFields
            THEN firstBool(<<cli[f], env[f], yaml[f]>>)
            ELSE firstNonEmpty(<<cli[f], env[f], yaml[f]>>)]

\* One override stage of the other iteration: "if src.F != unset { merged.F =
\* src.F }" for every field, where unset is "" (false for a flag), or, in the
\* cli stage, the flag's default for since, llm-provider and llm-model.
\* This iteration's Config names the prompt PromptFile and has no LogFile,
\* which is carried like the other strings.
OverrideWith(merged, src, isCli) ==
    IF src = Nil THEN merged
    ELSE [f \in Fields |->
            LET unset == IF isCli /\ f \in {"Since", "LLMProvider", "LLMModel"}
                         THEN FlagDefault(f)
                         ELSE IF f \in BoolFields THEN FALSE ELSE Empty
            IN  IF src[f] # unset THEN src[f] ELSE merged[f]]

\* MergeConfig of the iteration that starts from the YAML values and
\* overrides them with the environment's and then the flags'.
MergeConfig_BindFlags(cli, env, yaml) ==
    LET base == IF yaml = Nil THEN ZeroConfig ELSE yaml
    IN  OverrideWith(OverrideWith(base, env, FALSE), cli, TRUE)

(***************************************************************************)
(* Time (package time, as internal/timeutil uses it).  An instant is a day *)
(* count and a second of that day; nanoseconds are not modelled.  The wall *)
(* clock is a civil date and a second of the day, in UTC.                  *)
(***************************************************************************)
SecsPerDay == 86400

\* 2^63 ns and 2^64 ns in whole days and seconds: where an int64 count of
\* nanoseconds (time.Duration) overflows, and by how much it wraps.
Int64MaxDays == 106751
Int64MaxSecs == 85636
Int64WrapDays == 213503
Int64WrapSecs == 84873

IsLeap(y) == y % 4 = 0 /\ (y % 100 # 0 \/ y % 400 = 0)

\* Days of the year before the first of month m (1..12).
DaysBefore(m, y) ==
    <<0, 31, 59, 90, 120, 151, 181, 212, 243, 273, 304, 334>>[m]
    + (IF IsLeap(y) /\ m >= 3 THEN 1 ELSE 0)

\* time.Date(y, m, d, ...): the day count of a civil date whose month and
\* day may lie outside their ranges; the month overflows into the year, the
\* day is added to the first of the month.
DaysFromCivil(y, m, d) ==
    LET m0 == m - 1
        yy == y + (m0 \div 12)
        mm == (m0 % 12) + 1
        y1 == yy - 1
    IN  y1 * 365 + (y1 \div 4) - (y1 \div 100) + (y1 \div 400)
        + DaysBefore(mm, yy) + (d - 1)

\* The instant of a wall-clock reading.
Instant(c) == [day |-> DaysFromCivil(c.y, c.mo, c.d), sec |-> c.s]

\* time.Time{}
ZeroTime == [day |-> 0, sec |-> 0]

\* t.Before(u), t.After(u), t.Equal(u)
Before(t, u) == t.day < u.day \/ (t.day = u.day /\ t.sec < u.sec)
After(t, u) == Before(u, t)

\* t.AddDate(years, months, days)
AddDate(c, years, months, days) ==
    [day |-> DaysFromCivil(c.y + years, c.mo + months, c.d + days),
     sec |-> c.s]

\* -time.Duration(num) * unit for unit = unitSecs seconds, num >= 0: an int64
\* count of nanoseconds, which wraps around by 2^64 ns once num * unit
\* exceeds 2^63 ns.  The result is in days and seconds (either sign).
NegDuration(num, unitSecs) ==
    LET perDay == SecsPerDay \div unitSecs
        days == num \div perDay
        secs == (num % perDay) * unitSecs
        overflows == days > Int64MaxDays
                     \/ (days = Int64MaxDays /\ secs > Int64MaxSecs)
    IN  IF overflows
        THEN [days |-> Int64WrapDays - days, secs |-> Int64WrapSecs - secs]
        ELSE [days |-> 0 - days, secs |-> 0 - secs]

\* t.Add(d)
Add(c, d) ==
    LET total == c.s + d.secs
    IN  [day |-> DaysFromCivil(c.y, c.mo, c.d) + d.days + (total \div SecsPerDay),
         sec |-> total % SecsPerDay]

(***************************************************************************)
(* internal/timeutil: ParseRelativeDuration, in its two iterations.        *)
(***************************************************************************)
DigitSeq == <<"0", "1", "2", "3", "4", "5", "6", "7", "8", "9">>

DigitVal(c) == (CHOOSE i \in 1..10 : DigitSeq[i] = c) - 1

RECURSIVE DigitsValue(_, _)
DigitsValue(s, acc) ==
    IF s = <<>> THEN acc ELSE DigitsValue(Tail(s), acc * 10 + DigitVal(Head(s)))

\* strconv.Atoi: an optional sign and one or more decimal digits; a value
\* outside int64 is an error.  Twenty digits or more are outside int64; the
\* model's other digit strings are short enough to be inside it.
Atoi(s) ==
    LET signed == s # <<>> /\ Head(s) \in {"+", "-"}
        body == IF signed THEN Tail(s) ELSE s
    IN  IF body = <<>> \/ \E i \in 1..Len(body) : body[i] \notin Digits
        THEN [ok |-> FALSE, v |-> 0]
        ELSE IF Len(body) >= 20
        THEN [ok |-> FALSE, v |-> 0]
        ELSE [ok |-> TRUE,
              v |-> IF signed /\ Head(s) = "-"
                    THEN 0 - DigitsValue(body, 0)
                    ELSE DigitsValue(body, 0)]

\* regexp ^(\d+)([a-zA-Z]+)$ on s: <<s, digits, letters>>, or <<>> when s
\* does not match.
FindStringSubmatch(s) ==
    LET k == Cardinality({i \in 1..Len(s) :
                            \A j \in 1..i : s[j] \in Digits})
        rest == SubSeq(s, k + 1, Len(s))
    IN  IF k >= 1 /\ rest # <<>> /\ \A i \in 1..Len(rest) : rest[i] \in Letters
        THEN <<s, SubSeq(s, 1, k), rest>>
        ELSE <<>>

Str_d == <<"d">>
Str_m == <<"m">>
Str_y == <<"y">>
Str_yr == <<"y", "r">>

UnitDays == {Str_d, <<"d", "a", "y">>, <<"d", "a", "y", "s">>}
UnitWeeks == {<<"w">>, <<"w", "e", "e", "k">>, <<"w", "e", "e", "k", "s">>}
UnitMonths ==
    {Str_m, <<"m", "o", "n", "t", "h">>, <<"m", "o", "n", "t", "h", "s">>}
UnitYears ==
    {Str_y, Str_yr, <<"y", "e", "a", "r">>, <<"y", "e", "a", "r", "s">>}
UnitHours == {<<"h">>, <<"h", "o", "u", "r">>, <<"h", "o", "u", "r", "s">>}
UnitMinutes ==
    {<<"m", "i", "n">>, <<"m", "i", "n", "u", "t", "e">>,
     <<"m", "i", "n", "u", "t", "e", "s">>}
UnitSeconds ==
    {<<"s">>, <<"s", "e", "c">>, <<"s", "e", "c", "o", "n", "d">>,
     <<"s", "e", "c", "o", "n", "d", "s">>}

TimeError(e) == [err |-> e, t |-> ZeroTime]
TimeOk(t) == [err |-> "", t |-> t]

\* ParseRelativeDuration(r), the iteration that matches a regular
\* expression; now is what time.Now() returns during the call.
ParseRelativeDuration(r, now) ==
    IF r = Empty THEN TimeError("duration string cannot be empty")
    ELSE IF ~HasPrefix(r, <<"-">>)
    THEN TimeError("duration must be negative (past time)")
    ELSE
      LET matches == FindStringSubmatch(SubSeq(r, 2, Len(r)))
      IN  IF Len(matches) # 3 THEN TimeError("invalid duration format")
          ELSE
            LET n == Atoi(matches[2])
                num == n.v
                unit == ToLower(matches[3])
            IN  IF ~n.ok THEN TimeError("invalid number in duration")
                ELSE IF num <= 0
                THEN TimeError("duration number must be positive")
                ELSE IF unit \in UnitDays
                THEN TimeOk(AddDate(now, 0, 0, 0 - num))
                ELSE IF unit \in UnitWeeks
                THEN TimeOk(AddDate(now, 0, 0, 0 - num * 7))
                ELSE IF unit \in UnitMonths
                THEN TimeOk(AddDate(now, 0, 0 - num, 0))
                ELSE IF unit \in UnitYears
                THEN TimeOk(AddDate(now, 0 - num, 0, 0))
                ELSE IF unit \in UnitHours
                THEN TimeOk(Add(now, NegDuration(num, 3600)))
                ELSE IF unit \in UnitMinutes
                THEN TimeOk(Add(now, NegDuration(num, 60)))
                ELSE IF unit \in UnitSeconds
                THEN TimeOk(Add(now, NegDuration(num, 1)))
                ELSE TimeError("unsupported time unit")

\* ParseRelativeDuration(r), the iteration that tests suffixes; now is what
\* timeNow() returns during the call.
ParseRelativeDuration_Suffix(r, now) ==
    IF r = Empty THEN TimeError("relative duration string cannot be empty")
    ELSE IF ~HasPrefix(r, <<"-">>)
    THEN TimeError("relative duration must be negative (e.g., -7d)")
    ELSE
      LET rr == SubSeq(r, 2, Len(r))
          unit == IF HasSuffix(rr, Str_d) THEN Str_d
                  ELSE IF HasSuffix(rr, Str_m) THEN Str_m
                  ELSE IF HasSuffix(rr, Str_yr) THEN Str_yr
                  ELSE IF HasSuffix(rr, Str_y) THEN Str_y
                  ELSE Empty
          valueStr == TrimSuffix(rr, unit)
          value == Atoi(valueStr)
      IN  IF unit = Empty THEN TimeError("unknown or missing duration unit")
          ELSE IF valueStr = Empty
          THEN TimeError("missing numeric value in duration")
          ELSE IF ~value.ok THEN TimeError("invalid numeric value in duration")
          ELSE IF unit = Str_d THEN TimeOk(AddDate(now, 0, 0, 0 - value.v))
          ELSE IF unit = Str_m THEN TimeOk(AddDate(now, 0, 0 - value.v, 0))
          ELSE TimeOk(AddDate(now, 0 - value.v, 0, 0))

(***************************************************************************)
(* Errors.  An error is the chain of its messages, outermost first; each   *)
(* message carries the value formatted into it.  NoError is nil.           *)
(***************************************************************************)
NoError == <<>>

Errorf(msg, arg) == <<[msg |-> msg, arg |-> arg]>>

Wrapf(msg, arg, err) == Errorf(msg, arg) \o err

\* The failure an upstream request reports.
UpstreamError == Errorf("upstream request failed", Empty)

(***************************************************************************)
(* internal/gh: the REST client.  An upstream answer is a record           *)
(* [items, failAt]: the listing the service holds, served PerPage items a  *)
(* page, and the page whose request fails (0 for none).                    *)
(***************************************************************************)
PerPage == 1

Min(a, b) == IF a < b THEN a ELSE b

\* One request for a page: what the service returns for it.
UpstreamPage(items, failAt, page) ==
    IF failAt = page
    THEN [items |-> <<>>, NextPage |-> 0, err |-> UpstreamError]
    ELSE [items |-> SubSeq(items, (page - 1) * PerPage + 1,
                           Min(page * PerPage, Len(items))),
          NextPage |-> IF page * PerPage < Len(items) THEN page + 1 ELSE 0,
          err |-> NoError]

S_closed == <<"c", "l", "o", "s", "e", "d">>

S_open == <<"o", "p", "e", "n">>

\* PullRequests.List with the options of ListPRs: the pull requests of the
\* repository in the requested state.
InState(prs, state) == SelectSeq(prs, LAMBDA pr : pr.State = Some(state))

safeString(s) == IF s = None THEN Empty ELSE s[1]

safeTimestampPtr(t) == t

convertToModelPR(pr, repo) ==
    [Number |-> pr.Number,
     MergedAt |-> safeTimestampPtr(pr.MergedAt),
     Repository |-> repo,
     State |-> safeString(pr.State)]

\* A filter that also keeps a pull request merged at the cutoff itself.
QualifiesAtCutoff(pr, since) ==
    pr.MergedAt # None /\ ~Before(pr.MergedAt[1], since)

Qualifies(pr, since) == pr.MergedAt # None /\ After(pr.MergedAt[1], since)

\* A page loop that puts each page before the pages already read.
RECURSIVE ListPRsPagesNewestFirst(_, _, _, _, _)
ListPRsPagesNewestFirst(repo, since, up, page, allPRs) ==
    LET r == UpstreamPage(InState(up.items, S_closed),
                          up.failAt, page)
        kept == SelectSeq(r.items, LAMBDA pr : Qualifies(pr, since))
        acc == [i \in 1..Len(kept) |-> convertToModelPR(kept[i], repo)] \o allPRs
    IN  IF r.err # NoError
        THEN [prs |-> <<>>,
              err |-> Wrapf("failed to list pull requests for", repo, r.err)]
        ELSE IF r.NextPage = 0 THEN [prs |-> acc, err |-> NoError]
        ELSE ListPRsPagesNewestFirst(repo, since, up, r.NextPage, acc)

\* A page loop that stops at the first page without a qualifying pull
\* request.
RECURSIVE ListPRsPagesEarlyStop(_, _, _, _, _)
ListPRsPagesEarlyStop(repo, since, up, page, allPRs) ==
    LET r == UpstreamPage(InState(up.items, S_closed),
                          up.failAt, page)
        kept == SelectSeq(r.items, LAMBDA pr : Qualifies(pr, since))
        acc == allPRs \o [i \in 1..Len(kept) |-> convertToModelPR(kept[i], repo)]
    IN  IF r.err # NoError
        THEN [prs |-> <<>>,
              err |-> Wrapf("failed to list pull requests for", repo, r.err)]
        ELSE IF r.NextPage = 0 \/ kept = <<>> THEN [prs |-> acc, err |-> NoError]
        ELSE ListPRsPagesEarlyStop(repo, since, up, r.NextPage, acc)

RECURSIVE ListPRsPages(_, _, _, _, _)
ListPRsPages(repo, since, up, page, allPRs) ==
    LET r == UpstreamPage(InState(up.items, S_closed),
                          up.failAt, page)
        kept == SelectSeq(r.items, LAMBDA pr : Qualifies(pr, since))
        acc == allPRs \o [i \in 1..Len(kept) |-> convertToModelPR(kept[i], repo)]
    IN  IF r.err # NoError
        THEN [prs |-> <<>>,
              err |-> Wrapf("failed to list pull requests for", repo, r.err)]
        ELSE IF r.NextPage = 0 THEN [prs |-> acc, err |-> NoError]
        ELSE ListPRsPages(repo, since, up, r.NextPage, acc)

RestClient_ListPRs(repo, since, up) ==
    IF repo = Empty
    THEN [prs |-> <<>>, err |-> Errorf("repository name is required", Empty)]
    ELSE IF Len(Split(repo, "/")) # 2
    THEN [prs |-> <<>>,
          err |-> Errorf("repository must be in format 'owner/repo'", Empty)]
    ELSE ListPRsPages(repo, since, up, 1, <<>>)

RECURSIVE ListReposPages(_, _, _, _, _)
ListReposPages(msg, arg, up, page, allRepos) ==
    LET r == UpstreamPage(up.items, up.failAt, page)
    IN  IF r.err # NoError
        THEN [repos |-> <<>>, err |-> Wrapf(msg, arg, r.err)]
        ELSE IF r.NextPage = 0
        THEN [repos |-> allRepos \o r.items, err |-> NoError]
        ELSE ListReposPages(msg, arg, up, r.NextPage, allRepos \o r.items)

listOrgRepos(org, up) ==
    ListReposPages("failed to list repositories for org", org, up, 1, <<>>)

listUserRepos(user, up) ==
    ListReposPages("failed to list repositories for user", user, up, 1, <<>>)

Repository(fullName) ==
    [FullName |-> Some(fullName), Login |-> None, Name |-> None]

\* getSingleRepo without the format check: the identifier goes upstream as
\* it is.
getSingleRepoUnvalidated(repo, up) ==
    IF up.failAt # 0
    THEN [repos |-> <<>>,
          err |-> Wrapf("failed to get repository", repo, UpstreamError),
          requests |-> <<repo>>]
    ELSE [repos |-> <<Repository(repo)>>, err |-> NoError,
          requests |-> <<repo>>]

\* Repositories.Get answers with the repository asked for, or fails.
\* requests lists the identifiers Repositories.Get was called with.
getSingleRepo(repo, up) ==
    IF Len(Split(repo, "/")) # 2
    THEN [repos |-> <<>>,
          err |-> Errorf("repository must be in format 'owner/repo'", Empty),
          requests |-> <<>>]
    ELSE IF up.failAt # 0
    THEN [repos |-> <<>>,
          err |-> Wrapf("failed to get repository", repo, UpstreamError),
          requests |-> <<repo>>]
    ELSE [repos |-> <<Repository(repo)>>, err |-> NoError,
          requests |-> <<repo>>]

listTeamRepos(team, up) ==
    IF Len(Split(team, "/")) # 2
    THEN [repos |-> <<>>,
          err |-> Errorf("team must be in format 'org/team'", Empty)]
    ELSE ListReposPages("failed to list repositories for team", team, up,
                        1, <<>>)

\* The team identifiers ListRepos hands to listTeamRepos for a scope: the
\* team value as it is, when there is one.
TeamIdentifiers(scope) ==
    IF scope.Team # Empty THEN <<scope.Team>> ELSE <<>>

RestClient_ListRepos(scope, up) ==
    IF scope = Nil
    THEN [repos |-> <<>>,
          err |-> Errorf("scope configuration is required", Empty)]
    ELSE IF scope.Org # Empty THEN listOrgRepos(scope.Org, up)
    ELSE IF scope.User # Empty THEN listUserRepos(scope.User, up)
    ELSE IF scope.Repo # Empty THEN getSingleRepo(scope.Repo, up)
    ELSE IF scope.Team # Empty THEN listTeamRepos(scope.Team, up)
    ELSE [repos |-> <<>>,
          err |-> Errorf("no valid scope specified (org, user, repo, or team required)",
                         Empty)]

(***************************************************************************)
(* internal/gh: the mock client.  m is the MockClient, a record of its     *)
(* fields; each method returns its results and the client it leaves.       *)
(***************************************************************************)
NewMockClient ==
    [MockRepos |-> <<>>, MockPRs |-> <<>>, AuthError |-> NoError,
     RepoError |-> NoError, PRError |-> NoError, CallLog |-> <<>>]

ScopeCount(scope) ==
    Cardinality({f \in {"Org", "Team", "User", "Repo"} : scope[f] # Empty})

MockClient_ListRepos(m, scope) ==
    LET logged ==
          [m EXCEPT !.CallLog = Append(@, [call |-> "ListRepos", scope |-> scope])]
        err == IF m.AuthError # NoError THEN m.AuthError
               ELSE IF m.RepoError # NoError THEN m.RepoError
               ELSE IF scope = Nil
               THEN Errorf("scope configuration is required", Empty)
               ELSE IF ScopeCount(scope) = 0
               THEN Errorf("no valid scope specified (org, user, repo, or team required)",
                           Empty)
               ELSE IF ScopeCount(scope) > 1
               THEN Errorf("multiple scopes specified, only one allowed", Empty)
               ELSE NoError
    IN  [repos |-> IF err = NoError THEN m.MockRepos ELSE <<>>,
         err |-> err, client |-> logged]

\* The call log formats since as a date: the day of the instant.
MockClient_ListPRs(m, repo, since) ==
    LET logged ==
          [m EXCEPT !.CallLog =
              Append(@, [call |-> "ListPRs", repo |-> repo, since |-> since.day])]
        err == IF m.AuthError # NoError THEN m.AuthError
               ELSE IF m.PRError # NoError THEN m.PRError
               ELSE IF repo = Empty
               THEN Errorf("repository name is required", Empty)
               ELSE NoError
        filteredPRs ==
          SelectSeq(m.MockPRs,
                    LAMBDA pr : ~(pr.Repository # Empty /\ pr.Repository # repo)
                                /\ Qualifies(pr, since))
    IN  [prs |-> IF err = NoError THEN filteredPRs ELSE <<>>,
         err |-> err, client |-> logged]

(***************************************************************************)
(* internal/scope                                                          *)
(***************************************************************************)
S_org == <<"o", "r", "g">>

S_team == <<"t", "e", "a", "m">>

S_user == <<"u", "s", "e", "r">>

S_repo == <<"r", "e", "p", "o">>

ScopeFields == <<"Org", "Team", "User", "Repo">>

ScopeNames == <<S_org, S_team, S_user, S_repo>>

\* The names of the scope fields that are set, in the order the code tests
\* them.
ScopesSet(cfg) ==
    LET set == SelectSeq(<<1, 2, 3, 4>>,
                         LAMBDA i : Len(cfg[ScopeFields[i]]) > 0)
    IN  [k \in 1..Len(set) |-> ScopeNames[set[k]]]

ErrNoScope ==
    "no scope specified: exactly one of org, team, user, or repo must be provided"

ErrMultipleScopes == "multiple scopes specified: %v (only one allowed)"

\* A validation that only rejects a configuration without any scope.
ValidateScopeAtLeastOne(cfg) ==
    IF cfg = Nil THEN Errorf("configuration is required", Empty)
    ELSE IF Len(ScopesSet(cfg)) = 0 THEN Errorf(ErrNoScope, Empty)
    ELSE NoError

ValidateScope(cfg) ==
    LET scopes == ScopesSet(cfg)
        scopeCount == Len(scopes)
    IN  IF cfg = Nil THEN Errorf("configuration is required", Empty)
        ELSE IF scopeCount = 0
        THEN Errorf(ErrNoScope, Empty)
        ELSE IF scopeCount > 1
        THEN Errorf(ErrMultipleScopes,
                    <<"[">> \o Join(scopes, <<" ">>) \o <<"]">>)
        ELSE NoError

\* What ResolveRepos returns before it calls the client: an error, or
\* NoError when the call to ListRepos is to be made.
ResolveReposCheck(cfg, hasClient) ==
    IF cfg = Nil THEN Errorf("configuration is required", Empty)
    ELSE IF ~hasClient THEN Errorf("GitHub client is required", Empty)
    ELSE IF Len(ScopesSet(cfg)) = 0
    THEN Errorf(ErrNoScope, Empty)
    ELSE IF Len(ScopesSet(cfg)) > 1
    THEN Errorf("multiple scopes specified: only one of org, team, user, or repo is allowed",
                Empty)
    ELSE NoError

\* scopeType: the last scope field set in the order the code tests them.
ScopeType(cfg) == ScopesSet(cfg)[Len(ScopesSet(cfg))]

\* The names ResolveRepos extracts from the repositories listed.
RECURSIVE RepoNamesOf(_)
RepoNamesOf(repos) ==
    IF repos = <<>> THEN <<>>
    ELSE LET repo == Head(repos)
         IN  (IF repo.FullName # None THEN <<repo.FullName[1]>>
              ELSE IF repo.Login # None /\ repo.Name # None
              THEN <<repo.Login[1] \o <<"/">> \o repo.Name[1]>>
              ELSE <<>>) \o RepoNamesOf(Tail(repos))

\* ResolveRepos once ListRepos has returned listed.
ResolveReposResult(cfg, listed) ==
    IF listed.err # NoError
    THEN [repoNames |-> <<>>,
          err |-> Wrapf("failed to list repositories for", ScopeType(cfg),
                        listed.err)]
    ELSE IF Len(RepoNamesOf(listed.repos)) = 0
    THEN [repoNames |-> <<>>,
          err |-> Errorf("no repositories found for scope", ScopeType(cfg))]
    ELSE [repoNames |-> RepoNamesOf(listed.repos), err |-> NoError]

(***************************************************************************)
(* The inputs of a run.                                                    *)
(***************************************************************************)
\* The clock: the civil time time.Now() returns.
fixedTime == [y |-> 2024, mo |-> 7, d |-> 8, s |-> 43200]


yesterday(now) == AddDate(now, 0, 0, 0 - 1)

lastWeek(now) == AddDate(now, 0, 0, 0 - 7)

twoWeeksAgo(now) == AddDate(now, 0, 0, 0 - 13)

RepoName(i) == <<"o", "/", LowerSeq[i]>>

RECURSIVE Ascending(_)
Ascending(S) ==
    IF S = {} THEN <<>>
    ELSE LET m == CHOOSE x \in S : \A y \in S : x <= y
         IN  <<m>> \o Ascending(S \ {m})

Reverse(s) == [i \in 1..Len(s) |-> s[Len(s) + 1 - i]]

\* The orders in which an upstream lists repositories: every subset in
\* ascending order, and all of them in descending order.
RepoOrders ==
    {Ascending(S) : S \in SUBSET (1..MaxRepos)}
      \cup {Reverse(Ascending(1..MaxRepos))}

\* A repository the upstream reports with its owner and name only.
RepositoryByParts(i) ==
    [FullName |-> None, Login |-> Some(<<"o">>), Name |-> Some(<<LowerSeq[i]>>)]

\* A repository the upstream reports without any name.
RepositoryUnnamed == [FullName |-> None, Login |-> None, Name |-> None]

RepoListings ==
    {[k \in 1..Len(o) |-> Repository(RepoName(o[k]))] : o \in RepoOrders}
      \cup {[k \in 1..Len(o) |-> RepositoryByParts(o[k])] : o \in RepoOrders}
      \cup {<<RepositoryUnnamed>>}

\* The pull requests an upstream holds for a repository: github.PullRequest
\* values, numbered by position.
UpstreamPRKinds(now) ==
    {[MergedAt |-> None, State |-> Some(S_open)],
     [MergedAt |-> None, State |-> Some(S_closed)],
     [MergedAt |-> Some(yesterday(now)), State |-> Some(S_closed)],
     [MergedAt |-> Some(lastWeek(now)), State |-> Some(S_closed)],
     [MergedAt |-> Some(twoWeeksAgo(now)), State |-> Some(S_closed)]}

UpstreamPRListings(now) ==
    UNION {{[i \in 1..n |->
               [Number |-> i, MergedAt |-> k[i].MergedAt, State |-> k[i].State]] :
             k \in [1..n -> UpstreamPRKinds(now)]} : n \in 0..MaxPRs}

\* The answers of an upstream to a listing: any listing, failing on no page,
\* on the first or on the second.
Answers(listings) == {[items |-> l, failAt |-> f] : l \in listings, f \in 0..2}

\* The model.PR values a test gives the mock client.
MockPRKinds(now) ==
    <<[MergedAt |-> Some(yesterday(now)), State |-> S_closed,
       Repository |-> RepoName(1)],
      [MergedAt |-> Some(yesterday(now)), State |-> Empty, Repository |-> Empty],
      [MergedAt |-> Some(lastWeek(now)), State |-> S_closed,
       Repository |-> RepoName(1)],
      [MergedAt |-> None, State |-> S_closed, Repository |-> RepoName(2)]>>

\* The lists a test sets: up to MaxPRs of the values, in their order.
MockPRLists(now) ==
    {[i \in 1..Cardinality(S) |->
        LET k == MockPRKinds(now)[Ascending(S)[i]]
        IN  [Number |-> i, MergedAt |-> k.MergedAt, State |-> k.State,
             Repository |-> k.Repository]] :
      S \in {T \in SUBSET (1..Len(MockPRKinds(now))) :
               T # {} /\ Cardinality(T) <= MaxPRs}}

\* The repositories a test sets: the first one, two, ... of the names.
MockRepoLists ==
    {[k \in 1..n |-> Repository(RepoName(k))] : n \in 1..MaxRepos}

With(f, v) == [ZeroConfig EXCEPT ![f] = v]

S_o == <<"o">>

S_u == <<"u">>

S_t1 == <<"o", "/", "t">>

S_t2 == <<"o", "/", "u">>

\* The flags of a run, as GetConfig collects them.
CliSources ==
    {ZeroConfig, With("Org", S_o), With("User", S_u), With("Repo", RepoName(1)),
     With("Team", S_t1), With("Team", S_t1 \o <<",">> \o S_t2),
     With("Team", S_t1 \o <<",", " ">> \o S_t2),
     [ZeroConfig EXCEPT !.Org = S_o, !.User = S_u]}

EnvSources == {ZeroConfig, With("Since", S_7d)}

YamlSources == {ZeroConfig, With("Since", <<"7", "d">>)}

(***************************************************************************)
(* The run: GetConfig, then Fetch on the merged configuration with a REST  *)
(* client or with a mock client a test has set up.                         *)
(***************************************************************************)
VARIABLES
    pc,          \* the position of the run
    cliConfig,   \* the flags
    envConfig,   \* the environment
    yamlConfig,  \* the configuration file
    cfg,         \* the configuration in effect
    now,         \* the clock
    mode,        \* the flags that are not configuration: version, version-check
    client,      \* the GitHubClient: [kind |-> "rest"] or [kind |-> "mock", m]
    repoNames,   \* Fetch: the repositories resolved
    sinceTime,   \* Fetch: the cutoff
    idx,         \* Fetch: the repository the loop is at
    allPRs,      \* Fetch: the pull requests collected
    stdout,      \* the lines printed
    calls,       \* the calls made on the client, with what each returned
    ret          \* what the operation returned

vars ==
    <<pc, cliConfig, envConfig, yamlConfig, cfg, now, mode, client, repoNames,
      sinceTime, idx, allPRs, stdout, calls, ret>>

RestClient == [kind |-> "rest"]

\* Neither --version nor --version-check is passed.
NoMode == [version |-> FALSE, versionCheck |-> FALSE]

MockClient(m) == [kind |-> "mock", m |-> m]

Init ==
    /\ pc = "start"
    /\ cliConfig \in CliSources
    /\ envConfig \in EnvSources
    /\ yamlConfig \in YamlSources
    /\ cfg = Nil
    /\ now = fixedTime
    /\ mode = NoMode
    /\ client \in {RestClient, MockClient(NewMockClient)}
    /\ repoNames = <<>>
    /\ sinceTime = ZeroTime
    /\ idx = 0
    /\ allPRs = <<>>
    /\ stdout = <<>>
    /\ calls = <<>>
    /\ ret = Nil

runVars == <<cliConfig, envConfig, yamlConfig, now, mode>>

fetchVars == <<repoNames, sinceTime, idx, allPRs, stdout, calls, ret>>

SetMockRepos(repos) ==
    /\ pc = "start" /\ client.kind = "mock"
    /\ client.m.MockRepos = <<>>
    /\ client' = MockClient([client.m EXCEPT !.MockRepos = repos])
    /\ UNCHANGED <<pc, cfg, runVars, fetchVars>>

SetMockPRs(prs) ==
    /\ pc = "start" /\ client.kind = "mock"
    /\ client.m.MockPRs = <<>>
    /\ client' = MockClient([client.m EXCEPT !.MockPRs = prs])
    /\ UNCHANGED <<pc, cfg, runVars, fetchVars>>

SetRepoError(err) ==
    /\ pc = "start" /\ client.kind = "mock"
    /\ client.m.RepoError = NoError
    /\ client' = MockClient([client.m EXCEPT !.RepoError = err])
    /\ UNCHANGED <<pc, cfg, runVars, fetchVars>>

SetPRError(err) ==
    /\ pc = "start" /\ client.kind = "mock"
    /\ client.m.PRError = NoError
    /\ client' = MockClient([client.m EXCEPT !.PRError = err])
    /\ UNCHANGED <<pc, cfg, runVars, fetchVars>>

GetConfig ==
    /\ pc = "start"
    /\ cfg' = MergeConfig(cliConfig, envConfig, yamlConfig)
    /\ pc' = "config"
    /\ UNCHANGED <<client, runVars, fetchVars>>

\* client.ListRepos(cfg): the result, the client it leaves and the call made.
\* A REST client gets its answer from the upstream; a mock client from its
\* fields.
ListReposCall(c, scope, up) ==
    IF c.kind = "rest"
    THEN LET r == RestClient_ListRepos(scope, up)
         IN  [repos |-> r.repos, err |-> r.err, client |-> c]
    ELSE LET r == MockClient_ListRepos(c.m, scope)
         IN  [repos |-> r.repos, err |-> r.err, client |-> MockClient(r.client)]

ListPRsCall(c, repo, since, up) ==
    IF c.kind = "rest"
    THEN LET r == RestClient_ListPRs(repo, since, up)
         IN  [prs |-> r.prs, err |-> r.err, client |-> c]
    ELSE LET r == MockClient_ListPRs(c.m, repo, since)
         IN  [prs |-> r.prs, err |-> r.err, client |-> MockClient(r.client)]

\* Fetch, step 1, when ResolveRepos fails before it calls the client.
FetchResolveReposRejected ==
    /\ pc = "config"
    /\ ResolveReposCheck(cfg, TRUE) # NoError
    /\ ret' = [prs |-> <<>>,
               err |-> Wrapf("failed to resolve repositories", Empty,
                             ResolveReposCheck(cfg, TRUE))]
    /\ pc' = "done"
    /\ UNCHANGED <<cfg, client, runVars, repoNames, sinceTime, idx, allPRs,
                   stdout, calls>>

\* A step 1 that goes on with whatever was listed when ListRepos fails.
FetchResolveReposLenient(up) ==
    /\ pc = "config"
    /\ ResolveReposCheck(cfg, TRUE) = NoError
    /\ LET listed == ListReposCall(client, cfg, up)
       IN  /\ client' = listed.client
           /\ calls' = Append(calls, [call |-> "ListRepos", repos |-> listed.repos,
                                      err |-> listed.err])
           /\ repoNames' = RepoNamesOf(listed.repos)
           /\ pc' = "resolved"
    /\ UNCHANGED <<cfg, runVars, sinceTime, idx, allPRs, stdout, ret>>

\* Fetch, step 1, when ResolveRepos calls ListRepos.
FetchResolveRepos(up) ==
    /\ pc = "config"
    /\ ResolveReposCheck(cfg, TRUE) = NoError
    /\ LET listed == ListReposCall(client, cfg, up)
           r == ResolveReposResult(cfg, listed)
       IN  /\ client' = listed.client
           /\ calls' = Append(calls, [call |-> "ListRepos", repos |-> listed.repos,
                                      err |-> listed.err])
           /\ IF r.err # NoError
              THEN /\ ret' = [prs |-> <<>>,
                              err |-> Wrapf("failed to resolve repositories",
                                            Empty, r.err)]
                   /\ pc' = "done"
                   /\ UNCHANGED repoNames
              ELSE /\ repoNames' = r.repoNames
                   /\ pc' = "resolved"
                   /\ UNCHANGED ret
    /\ UNCHANGED <<cfg, runVars, sinceTime, idx, allPRs, stdout>>

\* Fetch, step 2: the cutoff.
FetchParseSince ==
    /\ pc = "resolved"
    /\ LET parsed == ParseRelativeDuration(cfg.Since, now)
       IN  IF parsed.err # ""
           THEN /\ ret' = [prs |-> <<>>,
                           err |-> Wrapf("failed to parse 'since' duration",
                                         Empty, Errorf(parsed.err, cfg.Since))]
                /\ pc' = "done"
                /\ UNCHANGED <<sinceTime, idx>>
           ELSE /\ sinceTime' = parsed.t
                /\ idx' = 1
                /\ pc' = "fetching"
                /\ UNCHANGED ret
    /\ UNCHANGED <<cfg, client, runVars, repoNames, allPRs, stdout, calls>>

\* A loop that returns the first failure of ListPRs instead of going on.
FetchListPRsAborting(up) ==
    /\ pc = "fetching"
    /\ idx <= Len(repoNames)
    /\ LET repoName == repoNames[idx]
           r == ListPRsCall(client, repoName, sinceTime, up)
       IN  /\ client' = r.client
           /\ calls' = Append(calls, [call |-> "ListPRs", repo |-> repoName,
                                      since |-> sinceTime, prs |-> r.prs,
                                      err |-> r.err])
           /\ IF r.err # NoError
              THEN /\ ret' = [prs |-> <<>>,
                              err |-> Wrapf("failed to fetch PRs from repository",
                                            repoName, r.err)]
                   /\ pc' = "done"
                   /\ UNCHANGED allPRs
              ELSE /\ allPRs' = allPRs \o r.prs
                   /\ UNCHANGED <<pc, ret>>
    /\ idx' = idx + 1
    /\ UNCHANGED <<cfg, runVars, repoNames, sinceTime, stdout>>

\* A loop that skips a failing repository without printing anything.
FetchListPRsSilent(up) ==
    /\ pc = "fetching"
    /\ idx <= Len(repoNames)
    /\ LET repoName == repoNames[idx]
           r == ListPRsCall(client, repoName, sinceTime, up)
       IN  /\ client' = r.client
           /\ calls' = Append(calls, [call |-> "ListPRs", repo |-> repoName,
                                      since |-> sinceTime, prs |-> r.prs,
                                      err |-> r.err])
           /\ allPRs' = IF r.err # NoError THEN allPRs ELSE allPRs \o r.prs
    /\ idx' = idx + 1
    /\ UNCHANGED <<pc, cfg, runVars, repoNames, sinceTime, stdout, ret>>

\* A loop that computes the cutoff anew for each repository.
FetchListPRsReparsing(up) ==
    /\ pc = "fetching"
    /\ idx <= Len(repoNames)
    /\ LET repoName == repoNames[idx]
           since == ParseRelativeDuration(cfg.Since, now).t
           r == ListPRsCall(client, repoName, since, up)
       IN  /\ client' = r.client
           /\ calls' = Append(calls, [call |-> "ListPRs", repo |-> repoName,
                                      since |-> since, prs |-> r.prs,
                                      err |-> r.err])
           /\ IF r.err # NoError
              THEN /\ stdout' = Append(stdout, [repo |-> repoName, err |-> r.err])
                   /\ UNCHANGED allPRs
              ELSE /\ allPRs' = allPRs \o r.prs
                   /\ UNCHANGED stdout
    /\ idx' = idx + 1
    /\ UNCHANGED <<pc, cfg, runVars, repoNames, sinceTime, ret>>

\* A loop that calls ListPRs once more for a repository whose call failed.
FetchListPRsRetrying(up) ==
    /\ pc = "fetching"
    /\ idx <= Len(repoNames)
    /\ LET repoName == repoNames[idx]
           r == ListPRsCall(client, repoName, sinceTime, up)
           retried == calls[Len(calls)].call = "ListPRs"
                      /\ calls[Len(calls)].repo = repoName
       IN  /\ client' = r.client
           /\ calls' = Append(calls, [call |-> "ListPRs", repo |-> repoName,
                                      since |-> sinceTime, prs |-> r.prs,
                                      err |-> r.err])
           /\ IF r.err # NoError
              THEN /\ stdout' = IF retried
                                THEN Append(stdout, [repo |-> repoName, err |-> r.err])
                                ELSE stdout
                   /\ idx' = IF retried THEN idx + 1 ELSE idx
                   /\ UNCHANGED allPRs
              ELSE /\ allPRs' = allPRs \o r.prs
                   /\ idx' = idx + 1
                   /\ UNCHANGED stdout
    /\ UNCHANGED <<pc, cfg, runVars, repoNames, sinceTime, ret>>

\* Fetch, step 3, one turn of the loop: ListPRs for the repository at idx.
FetchListPRs(up) ==
    /\ pc = "fetching"
    /\ idx <= Len(repoNames)
    /\ LET repoName == repoNames[idx]
           r == ListPRsCall(client, repoName, sinceTime, up)
       IN  /\ client' = r.client
           /\ calls' = Append(calls, [call |-> "ListPRs", repo |-> repoName,
                                      since |-> sinceTime, prs |-> r.prs,
                                      err |-> r.err])
           /\ IF r.err # NoError
              THEN /\ stdout' = Append(stdout, [repo |-> repoName, err |-> r.err])
                   /\ UNCHANGED allPRs
              ELSE /\ allPRs' = allPRs \o r.prs
                   /\ UNCHANGED stdout
    /\ idx' = idx + 1
    /\ UNCHANGED <<pc, cfg, runVars, repoNames, sinceTime, ret>>

\* Time passes while Fetch goes through the repositories: the clock reaches
\* the next day.
Tick ==
    /\ pc = "fetching"
    /\ now = fixedTime
    /\ now' = [now EXCEPT !.d = @ + 1]
    /\ UNCHANGED <<pc, cfg, client, cliConfig, envConfig, yamlConfig, mode,
                   fetchVars>>

\* Fetch, the return after the loop.
FetchReturn ==
    /\ pc = "fetching"
    /\ idx > Len(repoNames)
    /\ ret' = [prs |-> allPRs, err |-> NoError]
    /\ pc' = "done"
    /\ UNCHANGED <<cfg, client, runVars, repoNames, sinceTime, idx, allPRs,
                   stdout, calls>>

MockErrors == {Errorf("API error", Empty)}

NoAnswer == [items |-> <<>>, failAt |-> 0]

Next ==
    \/ \E repos \in MockRepoLists : SetMockRepos(repos)
    \/ \E prs \in MockPRLists(now) : SetMockPRs(prs)
    \/ \E err \in MockErrors : SetRepoError(err)
    \/ \E err \in MockErrors : SetPRError(err)
    \/ GetConfig
    \/ FetchResolveReposRejected
    \/ \E up \in IF client.kind = "rest" THEN Answers(RepoListings)
                 ELSE {NoAnswer} : FetchResolveRepos(up)
    \/ FetchParseSince
    \/ \E up \in IF client.kind = "rest"
                 THEN Answers(UpstreamPRListings(fixedTime))
                 ELSE {NoAnswer} : FetchListPRs(up)
    \/ Tick
    \/ FetchReturn

Spec == Init /\ [][Next]_vars

(***************************************************************************)
(* Properties of Fetch.                                                    *)
(***************************************************************************)
\* The calls of ListPRs made so far, in order.
ListPRsCalls == SelectSeq(calls, LAMBDA c : c.call = "ListPRs")

\* The calls of ListPRs that failed, in order.
FailedCalls == SelectSeq(ListPRsCalls, LAMBDA c : c.err # NoError)

\* The pull requests the calls that did not fail returned, in order.
RECURSIVE ReturnedBy(_)
ReturnedBy(cs) ==
    IF cs = <<>> THEN <<>>
    ELSE (IF Head(cs).err = NoError THEN Head(cs).prs ELSE <<>>)
           \o ReturnedBy(Tail(cs))

\* Fetch went through its loop and returned.
Collected == pc = "done" /\ idx >= 1

ReturnedWarnings == IF "warnings" \in DOMAIN ret THEN ret.warnings ELSE <<>>

MergedAfter(pr, cutoff) ==
    pr.MergedAt # None /\ Before(cutoff, pr.MergedAt[1])

NoSourceSetsSince ==
    cliConfig.Since = Empty /\ envConfig.Since = Empty /\ yamlConfig.Since = Empty

\* C6 as stated: when no source sets the since expression, the configuration
\* in effect has since -7d, and Fetch, once the repositories are resolved,
\* succeeds with a cutoff seven days before now.
C6_DefaultSince ==
    NoSourceSetsSince =>
      /\ pc # "start" => cfg.Since = S_7d
      /\ (pc = "done" /\ repoNames # <<>>) =>
           ret.err = NoError /\ sinceTime = AddDate(now, 0, 0, 0 - 7)

\* The team value names several teams.
SeveralTeams == cfg # Nil /\ Len(Split(cfg.Team, ",")) > 1

ErrorMentions(err, msgs) == \E i \in 1..Len(err) : err[i].msg \in msgs

NoDuplicates(s) == \A i, j \in 1..Len(s) : i # j => s[i] # s[j]

\* C8 as stated: for a team scope that names several teams, unless the
\* upstream fails or lists nothing, the repositories are enumerated and the
\* list holds each name once.
C8_TeamsDeduplicated ==
    (/\ pc = "done" /\ SeveralTeams /\ ScopeCount(cfg) = 1
     /\ ~ErrorMentions(ret.err, {"upstream request failed", "API error",
                                 "no repositories found for scope"}))
      => repoNames # <<>> /\ NoDuplicates(repoNames)

RECURSIVE TrimSpace(_)
TrimSpace(s) ==
    IF s # <<>> /\ Head(s) = " " THEN TrimSpace(Tail(s))
    ELSE IF s # <<>> /\ s[Len(s)] = " " THEN TrimSpace(SubSeq(s, 1, Len(s) - 1))
    ELSE s

\* The teams a value names: its comma-separated parts, trimmed.
TeamsNamed(v) ==
    IF v = Empty THEN <<>>
    ELSE [i \in 1..Len(Split(v, ",")) |-> TrimSpace(Split(v, ",")[i])]

\* C9 as stated: the teams enumerated for the configuration in effect are the
\* comma-separated parts, trimmed, of the team value of the first source that
\* sets one.
C9_TeamListSplit ==
    pc # "start" =>
      TeamIdentifiers(cfg)
        = TeamsNamed(firstNonEmpty(<<cliConfig.Team, envConfig.Team,
                                     yamlConfig.Team>>))

(***************************************************************************)
(* ValidateScope on its own: any configuration of the four scope fields.   *)
(***************************************************************************)
\* Nothing of a run has happened.
Idle ==
    /\ now = fixedTime
    /\ mode = NoMode
    /\ client = RestClient
    /\ repoNames = <<>> /\ sinceTime = ZeroTime /\ idx = 0
    /\ allPRs = <<>> /\ stdout = <<>> /\ calls = <<>>
    /\ ret = Nil

ScopeValues(f) ==
    CASE f = "Org" -> {Empty, S_o, S_u}
      [] f = "Team" -> {Empty, S_t1, S_t1 \o <<",">> \o S_t2}
      [] f = "User" -> {Empty, S_u, <<" ">>}
      [] f = "Repo" -> {Empty, RepoName(1), S_o, RepoName(1) \o <<"/", "b">>}

ScopeConfigs ==
    {[ZeroConfig EXCEPT !.Org = o, !.Team = t, !.User = u, !.Repo = r] :
       o \in ScopeValues("Org"), t \in ScopeValues("Team"),
       u \in ScopeValues("User"), r \in ScopeValues("Repo")}

InitScope ==
    /\ pc = "scope"
    /\ cfg \in ScopeConfigs
    /\ cliConfig = ZeroConfig /\ envConfig = ZeroConfig /\ yamlConfig = ZeroConfig
    /\ Idle

\* validateConfig's call of ValidateScope.
ValidateScopeCall ==
    /\ pc = "scope"
    /\ ret' = [err |-> ValidateScope(cfg)]
    /\ pc' = "validated"
    /\ UNCHANGED <<cfg, client, runVars, repoNames, sinceTime, idx, allPRs,
                   stdout, calls>>

NextScope == ValidateScopeCall

SpecScope == InitScope /\ [][NextScope]_vars

\* The scope fields of the configuration that are set.
FieldsSet(c) == {f \in {"Org", "Team", "User", "Repo"} : c[f] # Empty}

\* C4: ValidateScope accepts a configuration exactly when one of org, team,
\* user, repo is set; with none set it fails with the no-scope error, with two
\* or more with the multiple-scopes error.
C4_ExactlyOneScope ==
    pc = "validated" =>
      /\ Cardinality(FieldsSet(cfg)) = 1 <=> ret.err = NoError
      /\ Cardinality(FieldsSet(cfg)) = 0 <=>
           (ret.err # NoError /\ ret.err[1].msg = ErrNoScope)
      /\ Cardinality(FieldsSet(cfg)) > 1 <=>
           (ret.err # NoError /\ ret.err[1].msg = ErrMultipleScopes)

\* All four scopes set: rejected as multiple scopes.
C4_Witness ==
    /\ pc = "validated"
    /\ Cardinality(FieldsSet(cfg)) = 4
    /\ ret.err # NoError

(***************************************************************************)
(* MergeConfig on its own, in its two iterations: any three sources, each  *)
(* nil, empty, or setting one or two fields.                               *)
(***************************************************************************)
\* The value a source gives a string field: a for the flags, b for the
\* environment, c for the file.
SourceValue(src) ==
    CASE src = "cli" -> <<"a">> [] src = "env" -> <<"b">> [] src = "yaml" -> <<"c">>

MergeSources(src) ==
    {Nil, ZeroConfig}
      \cup {With(f, SourceValue(src)) : f \in StringFields}
      \cup {[ZeroConfig EXCEPT ![f] = TRUE] : f \in BoolFields}
      \cup {[ZeroConfig EXCEPT !.Org = SourceValue(src), !.Since = SourceValue(src)]}

\* The flags as BindFlags leaves them: nothing passed, or one flag passed.
BoundFlags ==
    {BindFlags, [BindFlags EXCEPT !.Org = <<"a">>],
     [BindFlags EXCEPT !.Since = <<"a">>], [BindFlags EXCEPT !.Since = Empty]}

InitMerge ==
    /\ pc = "sources"
    /\ cliConfig \in MergeSources("cli") \cup BoundFlags \cup {With("Since", S_7d)}
    /\ envConfig \in MergeSources("env")
    /\ yamlConfig \in MergeSources("yaml")
    /\ cfg = Nil
    /\ Idle

\* MergeConfig, the iteration that takes the first non-empty value.
MergeConfigCall ==
    /\ pc = "sources"
    /\ cfg' = MergeConfig(cliConfig, envConfig, yamlConfig)
    /\ pc' = "merged"
    /\ UNCHANGED <<client, runVars, fetchVars>>

\* MergeConfig, the iteration that compares the flags with their defaults.
MergeConfigBindFlagsCall ==
    /\ pc = "sources"
    /\ cfg' = MergeConfig_BindFlags(cliConfig, envConfig, yamlConfig)
    /\ pc' = "mergedBindFlags"
    /\ UNCHANGED <<client, runVars, fetchVars>>

\* validateConfig on the merged configuration: ValidateScope(cfg).
ValidateMergedCall ==
    /\ pc \in {"merged", "mergedBindFlags"}
    /\ ret' = [err |-> ValidateScope(cfg)]
    /\ pc' = "mergedValidated"
    /\ UNCHANGED <<cfg, client, runVars, repoNames, sinceTime, idx, allPRs,
                   stdout, calls>>

NextMerge == MergeConfigCall \/ MergeConfigBindFlagsCall \/ ValidateMergedCall

SpecMerge == InitMerge /\ [][NextMerge]_vars

Merged == pc \in {"merged", "mergedBindFlags"}

\* A source sets a string field: the source is there and the field is not
\* empty.
Sets(src, f) == src # Nil /\ src[f] # Empty

\* C5 as stated: for every string field MergeConfig yields the value of the
\* flags when they set it, otherwise that of the environment when it sets it,
\* otherwise that of the file; a nil source sets nothing.
C5_Precedence ==
    Merged => \A f \in StringFields :
      cfg[f] = IF Sets(cliConfig, f) THEN cliConfig[f]
               ELSE IF Sets(envConfig, f) THEN envConfig[f]
               ELSE IF Sets(yamlConfig, f) THEN yamlConfig[f]
               ELSE Empty

\* C7 as stated: an empty value in the flags or in the environment never
\* replaces a non-empty value of a source below it, for every string field;
\* and flags whose since is the default -7d do not mask a since of the
\* environment or of the file.
C7_EmptyFallsThrough ==
    Merged =>
      /\ \A f \in StringFields :
           /\ (cliConfig # Nil /\ cliConfig[f] = Empty /\ Sets(envConfig, f))
                => cfg[f] = envConfig[f]
           /\ (cliConfig # Nil /\ cliConfig[f] = Empty /\ ~Sets(envConfig, f)
                 /\ Sets(yamlConfig, f))
                => cfg[f] = yamlConfig[f]
           /\ (envConfig # Nil /\ envConfig[f] = Empty /\ ~Sets(cliConfig, f)
                 /\ Sets(yamlConfig, f))
                => cfg[f] = yamlConfig[f]
      /\ (cliConfig # Nil /\ cliConfig.Since = S_7d /\ Sets(envConfig, "Since"))
           => cfg.Since = envConfig.Since
      /\ (cliConfig # Nil /\ cliConfig.Since = S_7d /\ ~Sets(envConfig, "Since")
            /\ Sets(yamlConfig, "Since"))
           => cfg.Since = yamlConfig.Since

(***************************************************************************)
(* ParseRelativeDuration on its own, in its two iterations: expressions    *)
(* sign magnitude unit, at several instants.                               *)
(***************************************************************************)
Nows ==
    {fixedTime,
     [y |-> 2024, mo |-> 3, d |-> 31, s |-> 86399],
     [y |-> 2024, mo |-> 2, d |-> 29, s |-> 0]}

Signs == {<<"-">>, <<>>, <<"+">>}

\* The nines are a magnitude no int64 holds; 2562047 hours is the longest
\* time.Duration, 2562048 hours is beyond it.
Magnitudes ==
    {<<"1">>, <<"2">>, <<"3">>, <<"7">>, <<"3", "0">>, <<"0">>, <<"0", "0", "7">>, <<>>,
     <<"1", " ">>, <<" ", "7">>, <<"a", "7">>, <<"-", "1">>,
     <<"2", "5", "6", "2", "0", "4", "7">>,
     <<"2", "5", "6", "2", "0", "4", "8">>,
     [i \in 1..20 |-> "9"]}

Aliases ==
    UnitDays \cup UnitWeeks \cup UnitMonths \cup UnitYears \cup UnitHours
      \cup UnitMinutes \cup UnitSeconds

Units ==
    Aliases \cup {<<"D">>, <<"Y", "r">>, <<"M", "I", "N">>, <<"m", "o">>,
                  <<"x">>, <<>>}

Expressions == {sg \o mag \o u : sg \in Signs, mag \in Magnitudes, u \in Units}

InitTime ==
    /\ pc = "expression"
    /\ cfg \in {With("Since", r) : r \in Expressions}
    /\ cliConfig = ZeroConfig /\ envConfig = ZeroConfig /\ yamlConfig = ZeroConfig
    /\ now \in Nows
    /\ mode = NoMode
    /\ client = RestClient
    /\ repoNames = <<>> /\ sinceTime = ZeroTime /\ idx = 0
    /\ allPRs = <<>> /\ stdout = <<>> /\ calls = <<>>
    /\ ret = Nil

\* ParseRelativeDuration(cfg.Since), the iteration with the regular
\* expression.
ParseCall ==
    /\ pc = "expression"
    /\ ret' = ParseRelativeDuration(cfg.Since, now)
    /\ pc' = "parsed"
    /\ UNCHANGED <<cfg, client, runVars, repoNames, sinceTime, idx, allPRs,
                   stdout, calls>>

\* ParseRelativeDuration(cfg.Since), the iteration with the suffixes.
ParseSuffixCall ==
    /\ pc = "expression"
    /\ ret' = ParseRelativeDuration_Suffix(cfg.Since, now)
    /\ pc' = "parsedSuffix"
    /\ UNCHANGED <<cfg, client, runVars, repoNames, sinceTime, idx, allPRs,
                   stdout, calls>>

\* Time passes after a call: the clock the next call will read, time.Now()
\* or the timeNow variable, shows another instant.
ClockAdvances ==
    /\ pc \in {"parsed", "parsedSuffix"}
    /\ now' \in Nows \ {now}
    /\ pc' = IF pc = "parsed" THEN "parsedEarlier" ELSE "parsedSuffixEarlier"
    /\ UNCHANGED <<cfg, client, cliConfig, envConfig, yamlConfig, mode,
                   fetchVars>>

\* The caller keeps the cutoff it has in sinceTime and calls
\* ParseRelativeDuration(cfg.Since) once more, the iteration with the
\* regular expression.
ParseAgainCall ==
    /\ pc \in {"parsed", "parsedEarlier"}
    /\ sinceTime' = ret.t
    /\ ret' = ParseRelativeDuration(cfg.Since, now)
    /\ pc' = "parsedAgain"
    /\ UNCHANGED <<cfg, client, runVars, repoNames, idx, allPRs, stdout, calls>>

\* The same with the iteration with the suffixes.
ParseSuffixAgainCall ==
    /\ pc \in {"parsedSuffix", "parsedSuffixEarlier"}
    /\ sinceTime' = ret.t
    /\ ret' = ParseRelativeDuration_Suffix(cfg.Since, now)
    /\ pc' = "parsedSuffixAgain"
    /\ UNCHANGED <<cfg, client, runVars, repoNames, idx, allPRs, stdout, calls>>

NextTime ==
    \/ ParseCall
    \/ ParseSuffixCall
    \/ ClockAdvances
    \/ ParseAgainCall
    \/ ParseSuffixAgainCall

SpecTime == InitTime /\ [][NextTime]_vars

AllDigits(s) == s # <<>> /\ \A i \in 1..Len(s) : s[i] \in Digits

\* The expression is - n unit with n > 0 and unit an alias of seconds,
\* minutes, hours, days, weeks, months or years.
WellFormed(r) ==
    \E mag \in Magnitudes, u \in Aliases :
      /\ r = <<"-">> \o mag \o u
      /\ AllDigits(mag)
      /\ \E i \in 1..Len(mag) : mag[i] # "0"

\* C10 as stated: for every expression - n unit with n > 0 and a supported
\* alias, ParseRelativeDuration returns no error and a cutoff strictly
\* before the current instant.
C10_CutoffBeforeNow ==
    (pc \in {"parsed", "parsedSuffix"} /\ WellFormed(cfg.Since)) =>
      ret.err = "" /\ Before(ret.t, Instant(now))

\* The digits an expression body starts with.
LeadingDigits(s) ==
    SubSeq(s, 1, Cardinality({i \in 1..Len(s) : \A j \in 1..i : s[j] \in Digits}))

\* The expression is empty, lacks the leading '-', or what follows the '-' is
\* not digits of a magnitude above 0 followed by a unit alias in either case:
\* magnitude missing, not a number or 0, no unit, spaces, unsupported unit.
Malformed(r) ==
    \/ r = Empty
    \/ Head(r) # "-"
    \/ LET body == Tail(r)
           mag == LeadingDigits(body)
           unit == SubSeq(body, Len(mag) + 1, Len(body))
       IN  \/ mag = <<>>
           \/ \A i \in 1..Len(mag) : mag[i] = "0"
           \/ ToLower(unit) \notin Aliases

\* C11 as stated: for every malformed expression ParseRelativeDuration
\* returns an error and the zero time, never a usable time value.
C11_MalformedRejected ==
    (pc \in {"parsed", "parsedSuffix"} /\ Malformed(cfg.Since)) =>
      ret.err # "" /\ ret.t = ZeroTime

(***************************************************************************)
(* Properties of Fetch: enumeration.                                       *)
(***************************************************************************)
\* The calls of ListRepos made so far, in order.
ListReposCalls == SelectSeq(calls, LAMBDA c : c.call = "ListRepos")

\* The error err wraps cause: cause is the tail of its chain of messages.
Wraps(err, cause) ==
    /\ Len(err) > Len(cause)
    /\ SubSeq(err, Len(err) - Len(cause) + 1, Len(err)) = cause

\* C12: when the call of ListRepos fails, Fetch is over: it returns no pull
\* request and an error that wraps the failure of ListRepos, and it has made
\* no call of ListPRs.
C12_EnumerationFailureFatal ==
    \A i \in 1..Len(ListReposCalls) :
      ListReposCalls[i].err # NoError =>
        /\ pc = "done"
        /\ ret.prs = <<>>
        /\ Wraps(ret.err, ListReposCalls[i].err)
        /\ ListPRsCalls = <<>> /\ allPRs = <<>>

\* The upstream failed while the repositories were listed, and Fetch
\* returned the failure.
C12_Witness ==
    /\ pc = "done"
    /\ Len(calls) = 1 /\ calls[1].call = "ListRepos"
    /\ calls[1].err # NoError
    /\ ErrorMentions(ret.err, {"upstream request failed"})

(***************************************************************************)
(* ResolveRepos on its own, in its two iterations, each with the ListRepos *)
(* of the REST client of its iteration.                                    *)
(***************************************************************************)
\* ListRepos of the iteration that makes one request without options: the
\* first page of the listing, whatever the service holds beyond it.
RestClient_ListRepos_FirstPage(scope, up) ==
    LET r == UpstreamPage(up.items, up.failAt, 1)
        listed(msg, arg) ==
          IF r.err # NoError
          THEN [repos |-> <<>>, err |-> Wrapf(msg, arg, r.err)]
          ELSE [repos |-> r.items, err |-> NoError]
    IN  IF scope.Org # Empty
        THEN listed("failed to list repositories for organization", scope.Org)
        ELSE IF scope.User # Empty
        THEN listed("failed to list repositories for user", scope.User)
        ELSE IF scope.Repo # Empty
        THEN IF Len(Split(scope.Repo, "/")) # 2
             THEN [repos |-> <<>>,
                   err |-> Errorf("invalid repository format", scope.Repo),
                   requests |-> <<>>]
             ELSE IF up.failAt # 0
             THEN [repos |-> <<>>,
                   err |-> Wrapf("failed to get repository", scope.Repo,
                                 UpstreamError),
                   requests |-> <<scope.Repo>>]
             ELSE [repos |-> <<Repository(scope.Repo)>>, err |-> NoError,
                   requests |-> <<scope.Repo>>]
        ELSE IF scope.Team # Empty
        THEN [repos |-> <<>>,
              err |-> Errorf("listing repositories by team is not yet supported",
                             Empty)]
        ELSE [repos |-> <<>>,
              err |-> Errorf("no GitHub scope (org, user, repo, team) specified in configuration",
                             Empty)]

\* ResolveRepos of the iteration that returns the full names of what was
\* listed: the error before the call of ListRepos, or NoError when the call
\* is to be made.  A nil configuration is dereferenced: the call panics.
ResolveRepos_FullNames_Check(scope) ==
    IF scope = Nil THEN Errorf("panic: nil pointer dereference", Empty)
    ELSE IF ScopeCount(scope) = 0
    THEN Errorf("exactly one of --org, --team, --user, or --repo must be specified",
                Empty)
    ELSE IF ScopeCount(scope) > 1
    THEN Errorf("only one of --org, --team, --user, or --repo can be specified",
                Empty)
    ELSE NoError

\* The same iteration once ListRepos has returned listed: its error as it
\* is, or *repo.FullName of every repository, which panics on a repository
\* without one.
ResolveRepos_FullNames_Result(listed) ==
    IF listed.err # NoError THEN [repoNames |-> <<>>, err |-> listed.err]
    ELSE IF \E i \in 1..Len(listed.repos) : listed.repos[i].FullName = None
    THEN [repoNames |-> <<>>,
          err |-> Errorf("panic: nil pointer dereference", Empty)]
    ELSE [repoNames |-> [i \in 1..Len(listed.repos) |-> listed.repos[i].FullName[1]],
          err |-> NoError]

InitResolve ==
    /\ pc = "scope"
    /\ cfg \in ScopeConfigs \cup {Nil}
    /\ cliConfig = ZeroConfig /\ envConfig = ZeroConfig /\ yamlConfig = ZeroConfig
    /\ Idle

\* The identifiers Repositories.Get was called with during a listing; the
\* paged listings of an organisation or a user never call it.
GetsOf(listed) ==
    IF "requests" \in DOMAIN listed THEN listed.requests ELSE <<>>

\* ResolveRepos(cfg, client), the iteration that reports an empty listing.
ResolveReposCall(up) ==
    /\ pc = "scope"
    /\ IF ResolveReposCheck(cfg, TRUE) # NoError
       THEN /\ ret' = [repoNames |-> <<>>, err |-> ResolveReposCheck(cfg, TRUE)]
            /\ UNCHANGED calls
       ELSE LET listed == RestClient_ListRepos(cfg, up)
            IN  /\ calls' = Append(calls, [call |-> "ListRepos",
                                           repos |-> listed.repos,
                                           err |-> listed.err, up |-> up,
                                          gets |-> GetsOf(listed)])
                /\ ret' = ResolveReposResult(cfg, listed)
    /\ pc' = "resolvedNames"
    /\ UNCHANGED <<cfg, client, runVars, repoNames, sinceTime, idx, allPRs, stdout>>

\* ResolveRepos(cfg, client), the iteration that returns the full names.
ResolveReposFullNamesCall(up) ==
    /\ pc = "scope"
    /\ IF ResolveRepos_FullNames_Check(cfg) # NoError
       THEN /\ ret' = [repoNames |-> <<>>, err |-> ResolveRepos_FullNames_Check(cfg)]
            /\ UNCHANGED calls
       ELSE LET listed == RestClient_ListRepos_FirstPage(cfg, up)
            IN  /\ calls' = Append(calls, [call |-> "ListRepos",
                                           repos |-> listed.repos,
                                           err |-> listed.err, up |-> up,
                                          gets |-> GetsOf(listed)])
                /\ ret' = ResolveRepos_FullNames_Result(listed)
    /\ pc' = "resolvedFullNames"
    /\ UNCHANGED <<cfg, client, runVars, repoNames, sinceTime, idx, allPRs, stdout>>

NextResolve ==
    \/ ValidateScopeCall
    \/ \E up \in Answers(RepoListings) : ResolveReposCall(up)
    \/ \E up \in Answers(RepoListings) : ResolveReposFullNamesCall(up)

SpecResolve == InitResolve /\ [][NextResolve]_vars

\* Each call of ListRepos is recorded with the upstream answer it was served
\* from.
ResolveReturned == pc \in {"resolvedNames", "resolvedFullNames"}

\* C13 as stated: ResolveRepos never returns an empty list without an error;
\* when ListRepos succeeds and no repository comes of it, the error is the
\* no-repositories error, and that error is never the one returned when
\* ListRepos itself fails.
C13_EmptyIsAnError ==
    ResolveReturned =>
      /\ ret.err = NoError => ret.repoNames # <<>>
      /\ (calls # <<>> /\ calls[1].err = NoError /\ calls[1].repos = <<>>)
           => (ret.err # NoError
               /\ ret.err[1].msg = "no repositories found for scope")
      /\ (calls # <<>> /\ calls[1].err # NoError)
           => (ret.err # NoError
               /\ ret.err[1].msg # "no repositories found for scope")

(***************************************************************************)
(* rootCmd.Run.  calls holds the network requests made and the calls of    *)
(* the summarizer, the renderer and the file writer; stdout what the run   *)
(* printed; ret the exit of the process and what it wrote to stderr.       *)
(***************************************************************************)
\* A validation that looks at the scope only.
validateConfigScopeOnly(c) == ValidateScope(c)

\* A validation that looks at the token only.
validateConfigTokenOnly(c) ==
    IF c.GitHubToken = Empty THEN Errorf("GitHub token is required", Empty)
    ELSE NoError

validateConfig(c) ==
    IF c.GitHubToken = Empty THEN Errorf("GitHub token is required", Empty)
    ELSE ValidateScope(c)

\* NewRestClient(token): the client, the error and the requests issued;
\* authErr is what the Users.Get request returns.
NewRestClient(token, authErr) ==
    IF token = Empty
    THEN [client |-> Nil, err |-> Errorf("GitHub token is required", Empty),
          requests |-> <<>>]
    ELSE IF authErr # NoError
    THEN [client |-> Nil,
          err |-> Wrapf("GitHub authentication failed", Empty, authErr),
          requests |-> <<[call |-> "Users.Get", err |-> authErr]>>]
    ELSE [client |-> RestClient, err |-> NoError,
          requests |-> <<[call |-> "Users.Get", err |-> authErr]>>]

S_tok == <<"t">>

\* prtool --org=o --github-token=t --since=-7d, alone and with the flags that
\* decide what is reported: --dry-run, --llm-provider, --output, --ci.
ReportFlags == [ZeroConfig EXCEPT !.Org = S_o, !.GitHubToken = S_tok,
                                  !.Since = <<"-", "7", "d">>]

ReportCliSources ==
    {ReportFlags,
     [ReportFlags EXCEPT !.DryRun = TRUE],
     [ReportFlags EXCEPT !.DryRun = TRUE, !.LLMProvider = S_openai,
                         !.LLMAPIKey = S_tok, !.Output = <<"f">>],
     [ReportFlags EXCEPT !.DryRun = TRUE, !.CI = TRUE, !.Output = <<"f">>],
     [ReportFlags EXCEPT !.Output = <<"f">>],
     [ReportFlags EXCEPT !.LLMProvider = S_openai, !.LLMAPIKey = S_tok,
                         !.CI = TRUE]}

\* The flags, the environment and the file of a run, with or without a
\* token; Nil is a file that cannot be loaded.
RunCliSources ==
    {ZeroConfig, With("Org", S_o), With("GitHubToken", S_tok),
     [ZeroConfig EXCEPT !.Org = S_o, !.GitHubToken = S_tok],
     [ZeroConfig EXCEPT !.Org = S_o, !.User = S_u, !.GitHubToken = S_tok]}
      \cup ReportCliSources

RunEnvSources == {ZeroConfig, With("GitHubToken", S_tok)}

RunYamlSources ==
    {Nil, ZeroConfig, [ZeroConfig EXCEPT !.GitHubToken = S_tok, !.LogFile = S_o]}

InitRun ==
    /\ pc = "start"
    /\ cliConfig \in RunCliSources
    /\ envConfig \in RunEnvSources
    /\ yamlConfig \in RunYamlSources
    /\ cfg = Nil
    /\ now = fixedTime
    /\ mode \in [version : BOOLEAN, versionCheck : BOOLEAN]
    /\ client = Nil
    /\ repoNames = <<>> /\ sinceTime = ZeroTime /\ idx = 0
    /\ allPRs = <<>> /\ stdout = <<>> /\ calls = <<>>
    /\ ret = Nil

Exit(code, msg, err) == [exit |-> code, stderr |-> Wrapf(msg, Empty, err)]

\* --version: the version is printed and the run is over.
RunVersion ==
    /\ pc = "start" /\ mode.version
    /\ ret' = [exit |-> 0, stderr |-> NoError]
    /\ pc' = "exit"
    /\ UNCHANGED <<cfg, client, runVars, repoNames, sinceTime, idx, allPRs,
                   stdout, calls>>

\* --version-check: the latest release is requested and the run is over.
RunVersionCheck(err) ==
    /\ pc = "start" /\ ~mode.version /\ mode.versionCheck
    /\ calls' = Append(calls, [call |-> "GetLatestRelease", err |-> err])
    /\ ret' = IF err # NoError THEN Exit(1, "Error checking version", err)
              ELSE [exit |-> 0, stderr |-> NoError]
    /\ pc' = "exit"
    /\ UNCHANGED <<cfg, client, runVars, repoNames, sinceTime, idx, allPRs,
                   stdout>>

\* GetConfig when the configuration file cannot be loaded.
RunGetConfigFails ==
    /\ pc = "start" /\ ~mode.version /\ ~mode.versionCheck
    /\ yamlConfig = Nil
    /\ ret' = Exit(1, "Error loading config",
                   Errorf("failed to load config file", Empty))
    /\ pc' = "exit"
    /\ UNCHANGED <<cfg, client, runVars, repoNames, sinceTime, idx, allPRs,
                   stdout, calls>>

RunGetConfig ==
    /\ ~mode.version /\ ~mode.versionCheck
    /\ yamlConfig # Nil
    /\ GetConfig

RunValidateConfig ==
    /\ pc = "config"
    /\ IF validateConfig(cfg) # NoError
       THEN /\ ret' = Exit(1, "Configuration error", validateConfig(cfg))
            /\ pc' = "exit"
       ELSE /\ pc' = "validConfig"
            /\ UNCHANGED ret
    /\ UNCHANGED <<cfg, client, runVars, repoNames, sinceTime, idx, allPRs,
                   stdout, calls>>

\* logger.New: it fails when the log file cannot be opened.
RunCreateLogger(err) ==
    /\ pc = "validConfig"
    /\ err # NoError => cfg.LogFile # Empty
    /\ IF err # NoError
       THEN /\ ret' = Exit(1, "Failed to create logger", err)
            /\ pc' = "exit"
       ELSE /\ pc' = "logger"
            /\ UNCHANGED ret
    /\ UNCHANGED <<cfg, client, runVars, repoNames, sinceTime, idx, allPRs,
                   stdout, calls>>

RunNewRestClient(authErr) ==
    /\ pc = "logger"
    /\ LET r == NewRestClient(cfg.GitHubToken, authErr)
       IN  /\ calls' = calls \o r.requests
           /\ client' = r.client
           /\ IF r.err # NoError
              THEN /\ ret' = Exit(1, "Failed to create GitHub client", r.err)
                   /\ pc' = "exit"
              ELSE /\ pc' = "connected"
                   /\ UNCHANGED ret
    /\ UNCHANGED <<cfg, runVars, repoNames, sinceTime, idx, allPRs, stdout>>

\* The loop of Fetch over the repositories left to visit, every listing of
\* pull requests answered by up; acc is what the loop has so far.
RECURSIVE FetchLoop(_, _, _, _)
FetchLoop(names, since, up, acc) ==
    IF names = <<>> THEN acc
    ELSE LET repoName == Head(names)
             r == RestClient_ListPRs(repoName, since, up)
             call == [call |-> "ListPRs", repo |-> repoName, since |-> since,
                      prs |-> r.prs, err |-> r.err]
         IN  FetchLoop(Tail(names), since, up,
                       IF r.err # NoError
                       THEN [acc EXCEPT !.calls = Append(@, call),
                                        !.stdout = Append(@, [repo |-> repoName,
                                                              err |-> r.err])]
                       ELSE [acc EXCEPT !.calls = Append(@, call),
                                        !.prs = @ \o r.prs])

\* Fetch(cfg) on a REST client, from its call to its return: what it
\* returns, the calls it makes and what it prints.  t is the clock.
Fetch(c, t, upRepos, upPRs) ==
    IF ResolveReposCheck(c, TRUE) # NoError
    THEN [prs |-> <<>>, calls |-> <<>>, stdout |-> <<>>,
          err |-> Wrapf("failed to resolve repositories", Empty,
                        ResolveReposCheck(c, TRUE))]
    ELSE LET listed == RestClient_ListRepos(c, upRepos)
             r == ResolveReposResult(c, listed)
             listing == <<[call |-> "ListRepos", repos |-> listed.repos,
                           err |-> listed.err]>>
             parsed == ParseRelativeDuration(c.Since, t)
         IN  IF r.err # NoError
             THEN [prs |-> <<>>, calls |-> listing, stdout |-> <<>>,
                   err |-> Wrapf("failed to resolve repositories", Empty, r.err)]
             ELSE IF parsed.err # ""
             THEN [prs |-> <<>>, calls |-> listing, stdout |-> <<>>,
                   err |-> Wrapf("failed to parse 'since' duration", Empty,
                                 Errorf(parsed.err, c.Since))]
             ELSE FetchLoop(r.repoNames, parsed.t, upPRs,
                            [prs |-> <<>>, calls |-> listing, stdout |-> <<>>,
                             err |-> NoError])

\* The answers of the upstream to a run: listings of at most one item.
RunAnswers(listings) == {a \in Answers(listings) : Len(a.items) <= 1}

RunFetch(upRepos, upPRs) ==
    /\ pc = "connected"
    /\ LET r == Fetch(cfg, now, upRepos, upPRs)
       IN  /\ calls' = calls \o r.calls
           /\ stdout' = stdout \o r.stdout
           /\ IF r.err # NoError
              THEN /\ ret' = Exit(1, "Failed to fetch PRs", r.err)
                   /\ pc' = "exit"
                   /\ UNCHANGED allPRs
              ELSE /\ allPRs' = r.prs
                   /\ pc' = "fetched"
                   /\ UNCHANGED ret
    /\ UNCHANGED <<cfg, client, runVars, repoNames, sinceTime, idx>>

\* A run that goes on to the summary whether dry-run is set or not.
RunSummariseInDryRun(err) ==
    /\ pc = "fetched"
    /\ calls' = Append(calls, [call |-> "Summarise", err |-> err])
    /\ pc' = "summarised"
    /\ UNCHANGED <<cfg, client, runVars, repoNames, sinceTime, idx, allPRs,
                   stdout, ret>>

\* Dry-run: the table of the pull requests is printed and Run returns.
RunDryRun ==
    /\ pc = "fetched"
    /\ cfg.DryRun
    /\ stdout' = Append(stdout, [out |-> "RenderTable", prs |-> allPRs])
    /\ ret' = [exit |-> 0, stderr |-> NoError]
    /\ pc' = "exit"
    /\ UNCHANGED <<cfg, client, runVars, repoNames, sinceTime, idx, allPRs,
                   calls>>

\* createLLMClient never returns nil, so Summarise is called; its failure
\* is logged and the run goes on without a summary.
RunSummarise(err) ==
    /\ pc = "fetched"
    /\ ~cfg.DryRun
    /\ calls' = Append(calls, [call |-> "Summarise", err |-> err])
    /\ pc' = "summarised"
    /\ UNCHANGED <<cfg, client, runVars, repoNames, sinceTime, idx, allPRs,
                   stdout, ret>>

\* render.Render, then the report goes to the output file or to stdout.
RunRender(writeErr) ==
    /\ pc = "summarised"
    /\ writeErr # NoError => cfg.Output # Empty
    /\ LET rendered == [call |-> "Render", prs |-> allPRs,
                        summary |-> calls[Len(calls)].err = NoError]
       IN  IF cfg.Output # Empty
           THEN /\ calls' = calls \o <<rendered,
                                        [call |-> "writeToFile",
                                         filename |-> cfg.Output,
                                         err |-> writeErr]>>
                /\ ret' = IF writeErr # NoError
                          THEN Exit(1, "Failed to write output file", writeErr)
                          ELSE [exit |-> 0, stderr |-> NoError]
                /\ UNCHANGED stdout
           ELSE /\ calls' = Append(calls, rendered)
                /\ stdout' = Append(stdout, [out |-> "Render", prs |-> allPRs])
                /\ ret' = [exit |-> 0, stderr |-> NoError]
    /\ pc' = "exit"
    /\ UNCHANGED <<cfg, client, runVars, repoNames, sinceTime, idx, allPRs>>

\* NewRestClient(token) called on its own, as its test calls it.
NewRestClientCall(token, authErr) ==
    /\ pc = "start" /\ mode = NoMode
    /\ LET r == NewRestClient(token, authErr)
       IN  /\ calls' = calls \o r.requests
           /\ client' = r.client
           /\ ret' = [token |-> token, err |-> r.err]
    /\ pc' = "client"
    /\ UNCHANGED <<cfg, runVars, repoNames, sinceTime, idx, allPRs, stdout>>

\* The configurations Fetch is called with on its own: no scope, one, two.
FetchConfigs ==
    {[ReportFlags EXCEPT !.Org = Empty], ReportFlags,
     [ReportFlags EXCEPT !.Org = Empty, !.Repo = RepoName(1)],
     [ReportFlags EXCEPT !.User = S_u],
     [ReportFlags EXCEPT !.Team = S_t1, !.Repo = S_o]}

\* Fetch(cfg) called on its own with a REST client, as its tests call it
\* with a mock.
FetchCall(c, upRepos, upPRs) ==
    /\ pc = "start" /\ mode = NoMode
    /\ cliConfig = ZeroConfig /\ envConfig = ZeroConfig /\ yamlConfig = ZeroConfig
    /\ LET r == Fetch(c, now, upRepos, upPRs)
       IN  /\ calls' = calls \o r.calls
           /\ stdout' = stdout \o r.stdout
           /\ ret' = [cfg |-> c, prs |-> r.prs, err |-> r.err]
    /\ pc' = "fetchCalled"
    /\ UNCHANGED <<cfg, client, runVars, repoNames, sinceTime, idx, allPRs>>

NextRun ==
    \/ \E c \in FetchConfigs, upRepos \in RunAnswers(RepoListings),
          upPRs \in RunAnswers(UpstreamPRListings(fixedTime)) :
         FetchCall(c, upRepos, upPRs)
    \/ RunVersion
    \/ \E err \in {NoError, UpstreamError} : RunVersionCheck(err)
    \/ RunGetConfigFails
    \/ RunGetConfig
    \/ RunValidateConfig
    \/ \E err \in {NoError, Errorf("failed to open log file", Empty)} :
         RunCreateLogger(err)
    \/ \E authErr \in {NoError, UpstreamError} : RunNewRestClient(authErr)
    \/ \E upRepos \in RunAnswers(RepoListings),
          upPRs \in RunAnswers(UpstreamPRListings(fixedTime)) :
         RunFetch(upRepos, upPRs)
    \/ RunDryRun
    \/ \E err \in {NoError, UpstreamError} : RunSummarise(err)
    \/ \E writeErr \in {NoError, Errorf("failed to write file", Empty)} :
         RunRender(writeErr)
    \/ \E token \in {Empty, S_tok}, authErr \in {NoError, UpstreamError} :
         NewRestClientCall(token, authErr)

SpecRun == InitRun /\ [][NextRun]_vars

InListingOrder(prs) ==
    \A i, j \in 1..Len(prs) : i < j => prs[i].Number < prs[j].Number

\* C15: the calls of ListPRs are made in the order of the repositories
\* enumerated, each returns its pull requests in the order of the upstream
\* listing, and what Fetch collects and returns is the concatenation of what
\* the calls returned, in the order of the calls.
C15_ConcatenationInOrder ==
    /\ \A i \in 1..Len(ListPRsCalls) :
         /\ ListPRsCalls[i].repo = repoNames[i]
         /\ InListingOrder(ListPRsCalls[i].prs)
    /\ allPRs = ReturnedBy(ListPRsCalls)
    /\ Collected => ret.prs = allPRs

\* The REST client, repositories enumerated in descending order, one of them
\* with two qualifying pull requests on two pages, another with one.
C15_Witness ==
    /\ Collected /\ client.kind = "rest"
    /\ repoNames[1] = RepoName(MaxRepos)
    /\ Len(ret.prs) >= 3
    /\ \E i \in 1..Len(ListPRsCalls) : Len(ListPRsCalls[i].prs) = 2

C17_OneCutoff ==
    (pc = "fetching" \/ Collected) =>
      /\ sinceTime = ParseRelativeDuration(cfg.Since, fixedTime).t
      /\ \A i \in 1..Len(ListPRsCalls) : ListPRsCalls[i].since = sinceTime

\* The clock moved on between the calls for two repositories.
C17_Witness ==
    /\ Collected
    /\ now # fixedTime
    /\ Len(ListPRsCalls) >= 2
    /\ sinceTime # ParseRelativeDuration(cfg.Since, now).t

(***************************************************************************)
(* Properties of ListRepos and ListPRs: pages.                             *)
(***************************************************************************)
\* The pages the service has for a listing.
PagesOf(items) ==
    IF Len(items) = 0 THEN 1 ELSE (Len(items) + PerPage - 1) \div PerPage

\* The scope is one organization, one user, or one team given as org/team.
OwnerScope(c) ==
    /\ c # Nil /\ ScopeCount(c) = 1 /\ c.Repo = Empty
    /\ c.Team # Empty => Len(Split(c.Team, "/")) = 2

\* C18 as stated: for an organization, user or team scope ListRepos returns
\* the whole listing of the upstream, all pages in page order, when no page
\* fails, and an error and no repository when a page fails.
C18_AllPagesListed ==
    (ResolveReturned /\ OwnerScope(cfg) /\ calls # <<>>) =>
      LET c == calls[1]
          fails == c.up.failAt \in 1..PagesOf(c.up.items)
      IN  IF fails THEN c.err # NoError /\ c.repos = <<>>
          ELSE c.err = NoError /\ c.repos = c.up.items

(***************************************************************************)
(* ListPRs of the REST client on its own, in its two iterations.           *)
(***************************************************************************)
\* ListPRs of the iteration that builds each model.PR in the loop: the same
\* request and the same filter, page after page.  Of a pull request the
\* model keeps the number, for the URL, and the merge time.
RECURSIVE ListPRsPages_Inline(_, _, _, _, _)
ListPRsPages_Inline(repo, since, up, page, collected) ==
    LET r == UpstreamPage(InState(up.items, S_closed), up.failAt, page)
        kept == SelectSeq(r.items, LAMBDA pr : Qualifies(pr, since))
        acc == collected \o [i \in 1..Len(kept) |->
                            [Number |-> kept[i].Number,
                             MergedAt |-> kept[i].MergedAt]]
    IN  IF r.err # NoError
        THEN [prs |-> <<>>,
              err |-> Wrapf("failed to list pull requests for", repo, r.err)]
        ELSE IF r.NextPage = 0 THEN [prs |-> acc, err |-> NoError]
        ELSE ListPRsPages_Inline(repo, since, up, r.NextPage, acc)

RestClient_ListPRs_Inline(repoFullName, since, up) ==
    IF Len(Split(repoFullName, "/")) # 2
    THEN [prs |-> <<>>,
          err |-> Errorf("invalid repository full name", repoFullName)]
    ELSE ListPRsPages_Inline(repoFullName, since, up, 1, <<>>)

\* The repository names ListPRs is called with.
ListPRsRepos == {RepoName(1), S_o, Empty}

InitListPRs ==
    /\ pc = "repo"
    /\ cfg = Nil
    /\ cliConfig = ZeroConfig /\ envConfig = ZeroConfig /\ yamlConfig = ZeroConfig
    /\ now = fixedTime
    /\ mode = NoMode
    /\ client = RestClient
    /\ repoNames \in {<<r>> : r \in ListPRsRepos}
    /\ sinceTime \in {lastWeek(fixedTime), twoWeeksAgo(fixedTime)}
    /\ idx = 1
    /\ allPRs = <<>> /\ stdout = <<>> /\ calls = <<>>
    /\ ret = Nil

\* client.ListPRs(repo, since), the iteration with convertToModelPR.
RestListPRsCall(up) ==
    /\ pc = "repo"
    /\ LET r == RestClient_ListPRs(repoNames[1], sinceTime, up)
       IN  /\ ret' = r
           /\ calls' = Append(calls, [call |-> "ListPRs", repo |-> repoNames[1],
                                      since |-> sinceTime, prs |-> r.prs,
                                      err |-> r.err, up |-> up])
    /\ pc' = "listed"
    /\ UNCHANGED <<cfg, client, runVars, repoNames, sinceTime, idx, allPRs, stdout>>

\* client.ListPRs(repoFullName, since), the iteration that builds the
\* model.PR in the loop.
RestListPRsInlineCall(up) ==
    /\ pc = "repo"
    /\ LET r == RestClient_ListPRs_Inline(repoNames[1], sinceTime, up)
       IN  /\ ret' = r
           /\ calls' = Append(calls, [call |-> "ListPRs", repo |-> repoNames[1],
                                      since |-> sinceTime, prs |-> r.prs,
                                      err |-> r.err, up |-> up])
    /\ pc' = "listedInline"
    /\ UNCHANGED <<cfg, client, runVars, repoNames, sinceTime, idx, allPRs, stdout>>

NextListPRs ==
    \/ \E up \in Answers(UpstreamPRListings(fixedTime)) : RestListPRsCall(up)
    \/ \E up \in Answers(UpstreamPRListings(fixedTime)) : RestListPRsInlineCall(up)

SpecListPRs == InitListPRs /\ [][NextListPRs]_vars

\* The numbers of the pull requests, in order.
Numbers(prs) == [i \in 1..Len(prs) |-> prs[i].Number]

\* The numbers of the pull requests of a listing merged after the cutoff.
QualifyingIn(items, cutoff) ==
    Numbers(SelectSeq(items, LAMBDA pr : MergedAfter(pr, cutoff)))

\* C19: when ListPRs returns without an error, it returns every pull
\* request of the upstream listing that was merged after the cutoff,
\* whatever page it is on and whatever the other pages hold; it returns
\* without an error whenever the repository name is owner/repo and no page
\* of the listing fails.
C19_NoQualifyingLost ==
    pc \in {"listed", "listedInline"} =>
      LET c == calls[1]
          closedItems == InState(c.up.items, S_closed)
      IN  /\ ret.err = NoError =>
               Numbers(ret.prs) = QualifyingIn(c.up.items, sinceTime)
          /\ (Len(Split(c.repo, "/")) = 2
                /\ c.up.failAt \notin 1..PagesOf(closedItems))
               => ret.err = NoError

\* The first page holds a pull request that does not qualify, the second one
\* that does, and ListPRs returned the second.
C19_Witness ==
    /\ pc \in {"listed", "listedInline"}
    /\ ret.err = NoError
    /\ Len(calls[1].up.items) = 2
    /\ calls[1].up.items[1].State = Some(S_closed)
    /\ ~MergedAfter(calls[1].up.items[1], sinceTime)
    /\ Numbers(ret.prs) = <<2>>

(***************************************************************************)
(* Properties of the scope errors.                                         *)
(***************************************************************************)
Contains(s, sub) ==
    \E i \in 1..(Len(s) - Len(sub) + 1) : SubSeq(s, i, i + Len(sub) - 1) = sub

\* The scopes the text of an error names, as positions in ScopeNames: those
\* in the value formatted into it; the fixed text of ResolveRepos lists all
\* four.
ScopesNamed(e) ==
    IF e.msg = "multiple scopes specified: only one of org, team, user, or repo is allowed"
    THEN {1, 2, 3, 4}
    ELSE {k \in 1..4 : Contains(e.arg, ScopeNames[k])}

\* C20 as stated: when more than one scope is set, ValidateScope and
\* ResolveRepos (the iteration that counts the scopes itself) fail with an
\* error that names the scopes that are set and no other.
C20_MultipleScopesNamed ==
    (pc \in {"validated", "resolvedNames"} /\ cfg # Nil
       /\ Cardinality(FieldsSet(cfg)) > 1) =>
      /\ ret.err # NoError
      /\ ScopesNamed(ret.err[1]) = {k \in 1..4 : cfg[ScopeFields[k]] # Empty}

(***************************************************************************)
(* Properties of ParseRelativeDuration: aliases, documented formats.       *)
(***************************************************************************)
\* The aliases of each unit.
UnitAliases ==
    {UnitDays, UnitWeeks, UnitMonths, UnitYears, UnitHours, UnitMinutes,
     UnitSeconds}

\* The magnitude and the unit of an expression that starts with '-'.
MagnitudeOf(r) == LeadingDigits(Tail(r))

UnitOf(r) == SubSeq(r, Len(MagnitudeOf(r)) + 2, Len(r))

\* The magnitude is a number above 0 that an int holds.
ValidMagnitude(mag) ==
    AllDigits(mag) /\ Len(mag) < 20 /\ \E i \in 1..Len(mag) : mag[i] # "0"

\* The parse the state is the result of, applied to another expression.
SameParse(r) ==
    IF pc = "parsed" THEN ParseRelativeDuration(r, now)
    ELSE ParseRelativeDuration_Suffix(r, now)

\* C21 as stated: an expression whose unit is, in any letter case, an alias
\* of a unit is accepted, and its cutoff is the cutoff of the same magnitude
\* with every other alias of that unit.
C21_AliasesAgree ==
    (/\ pc \in {"parsed", "parsedSuffix"}
     /\ cfg.Since # Empty /\ Head(cfg.Since) = "-"
     /\ ValidMagnitude(MagnitudeOf(cfg.Since))
     /\ ToLower(UnitOf(cfg.Since)) \in Aliases)
      => /\ ret.err = ""
         /\ \A U \in UnitAliases : ToLower(UnitOf(cfg.Since)) \in U =>
              \A u \in U :
                SameParse(<<"-">> \o MagnitudeOf(cfg.Since) \o u) = ret

\* The windows of the README's Time Range Format table: the expression and
\* the years, months and days it goes back.
DocumentedFormats ==
    {[r |-> <<"-", "7", "d">>, y |-> 0, m |-> 0, d |-> 7],
     [r |-> <<"-", "2", "w">>, y |-> 0, m |-> 0, d |-> 14],
     [r |-> <<"-", "1", "m">>, y |-> 0, m |-> 1, d |-> 0],
     [r |-> <<"-", "3", "m", "o">>, y |-> 0, m |-> 3, d |-> 0],
     [r |-> <<"-", "1", "y", "r">>, y |-> 1, m |-> 0, d |-> 0]}

\* C22 as stated: every format of the table is accepted and resolves to the
\* window the table gives it, counted back from now on the calendar.
C22_DocumentedFormats ==
    pc \in {"parsed", "parsedSuffix"} =>
      \A f \in DocumentedFormats : cfg.Since = f.r =>
        /\ ret.err = ""
        /\ ret.t = AddDate(now, 0 - f.y, 0 - f.m, 0 - f.d)

\* C23 as stated: the cutoff depends on what the caller passes only, so a
\* second resolution of the same expression returns the cutoff of the first,
\* whenever it is made.
C23_Deterministic ==
    pc \in {"parsedAgain", "parsedSuffixAgain"} => ret.t = sinceTime

\* ---------------------------------------------------------------------
\* C24: for the repository scope, an identifier that does not have exactly
\* one '/' is rejected with an error and Repositories.Get is never called;
\* an identifier of the form owner/name is looked up once, and yields the
\* one-element list when the lookup succeeds and an error with no
\* repository when it fails.
OneSlash(s) == Cardinality({i \in 1..Len(s) : s[i] = "/"}) = 1

RepoScopeListed ==
    /\ ResolveReturned
    /\ cfg # Nil
    /\ cfg.Repo # Empty
    /\ calls # <<>>

C24_SingleRepoLookup ==
    RepoScopeListed =>
        LET c == calls[1]
        IN  IF ~OneSlash(cfg.Repo)
            THEN c.err # NoError /\ c.repos = <<>> /\ c.gets = <<>>
            ELSE /\ c.gets = <<cfg.Repo>>
                 /\ IF c.up.failAt # 0
                    THEN c.err # NoError /\ c.repos = <<>>
                    ELSE c.err = NoError /\ c.repos = <<Repository(cfg.Repo)>>

C24_Witness ==
    /\ RepoScopeListed
    /\ OneSlash(cfg.Repo)
    /\ calls[1].up.failAt # 0
    /\ calls[1].repos = <<>>

\* ---------------------------------------------------------------------
\* C25: a run with dry-run set never calls the summarizer, never renders
\* the markdown report and never writes the output file, whatever the LLM
\* provider and the output are; once the pull requests are fetched it
\* prints their table and ends.
ReportCalls ==
    SelectSeq(calls, LAMBDA c : c.call \in {"Summarise", "Render", "writeToFile"})

C25_DryRunStopsAtTable ==
    (cfg # Nil /\ cfg.DryRun) =>
        /\ ReportCalls = <<>>
        /\ \A k \in 1..Len(stdout) :
              "out" \in DOMAIN stdout[k] => stdout[k].out = "RenderTable"
        /\ pc # "summarised"
        /\ (pc = "exit" /\ ret.exit = 0) =>
              (stdout # <<>>
               /\ stdout[Len(stdout)] = [out |-> "RenderTable", prs |-> allPRs])

\* A dry run with an LLM provider and an output file printed the table of
\* a pull request it fetched.
C25_Witness ==
    /\ pc = "exit" /\ cfg # Nil /\ cfg.DryRun
    /\ cfg.LLMProvider # Empty /\ cfg.Output # Empty
    /\ allPRs # <<>>
    /\ stdout # <<>>
    /\ stdout[Len(stdout)] = [out |-> "RenderTable", prs |-> allPRs]

(***************************************************************************)
(* prtool init, run again and again in one directory.  yamlConfig is the   *)
(* file .prtool.yaml of that directory, calls what happened to it so far,  *)
(* ret what the last run returned.                                         *)
(***************************************************************************)
MaxInitRuns == 4

NoFile == [exists |-> FALSE, content |-> Empty]

FileWith(content) == [exists |-> TRUE, content |-> content]

\* generateAnnotatedYAML(): the annotated sample, by its first line.
generateAnnotatedYAML == <<"#", " ", "p", "r", "t", "o", "o", "l">>

S_configPath == <<".", "p", "r", "t", "o", "o", "l", ".", "y", "a", "m", "l">>

\* An init that writes the sample whether the file exists or not.
runInitOverwriting(file, written) ==
    IF written.err # NoError
    THEN [file |-> written.file, stdout |-> <<>>,
          err |-> Wrapf("failed to write configuration file", Empty, written.err)]
    ELSE [file |-> written.file,
          stdout |-> <<"Configuration file created",
                       "Edit this file to customize your prtool settings.">>,
          err |-> NoError]

\* runInit on the file as os.Stat finds it; written is what os.WriteFile
\* does when it is called: the file it leaves and its error.
runInit(file, written) ==
    IF file.exists
    THEN [file |-> file, stdout |-> <<>>,
          err |-> Errorf("configuration file already exists", S_configPath)]
    ELSE IF written.err # NoError
    THEN [file |-> written.file, stdout |-> <<>>,
          err |-> Wrapf("failed to write configuration file", Empty, written.err)]
    ELSE [file |-> written.file,
          stdout |-> <<"Configuration file created",
                       "Edit this file to customize your prtool settings.">>,
          err |-> NoError]

\* os.WriteFile(configPath, content, 0644): the content is written, or the
\* call fails before the file is created, or after it was created and
\* before the content is complete.
WriteOutcomes == {"written", "denied", "truncated"}

WriteFile(file, content, outcome) ==
    CASE outcome = "written" -> [file |-> FileWith(content), err |-> NoError]
      [] outcome = "denied" ->
           [file |-> file, err |-> Errorf("permission denied", Empty)]
      [] outcome = "truncated" ->
           [file |-> FileWith(Empty),
            err |-> Errorf("no space left on device", Empty)]

InitInit ==
    /\ pc = "shell"
    /\ yamlConfig \in {NoFile, FileWith(<<"e">>), FileWith(generateAnnotatedYAML)}
    /\ cliConfig = ZeroConfig /\ envConfig = ZeroConfig
    /\ cfg = Nil
    /\ Idle

\* prtool init
RunInit(outcome) ==
    /\ pc = "shell"
    /\ Len(calls) < MaxInitRuns
    /\ LET r == runInit(yamlConfig,
                        WriteFile(yamlConfig, generateAnnotatedYAML, outcome))
       IN  /\ yamlConfig' = r.file
           /\ stdout' = r.stdout
           /\ ret' = [err |-> r.err]
           /\ calls' = Append(calls, [call |-> "init", before |-> yamlConfig,
                                      after |-> r.file, err |-> r.err])
    /\ UNCHANGED <<pc, cfg, client, cliConfig, envConfig, now, mode, repoNames,
                   sinceTime, idx, allPRs>>

\* Between two runs the user edits the file, or removes it.
UserEdits(file) ==
    /\ pc = "shell"
    /\ calls # <<>> /\ calls[Len(calls)].call = "init"
    /\ Len(calls) < MaxInitRuns
    /\ yamlConfig.exists
    /\ file # yamlConfig
    /\ yamlConfig' = file
    /\ calls' = Append(calls, [call |-> "edit"])
    /\ UNCHANGED <<pc, cfg, client, cliConfig, envConfig, now, mode, repoNames,
                   sinceTime, idx, allPRs, stdout, ret>>

NextInit ==
    \/ \E outcome \in WriteOutcomes : RunInit(outcome)
    \/ \E file \in {NoFile, FileWith(<<"e">>)} : UserEdits(file)

SpecInit == InitInit /\ [][NextInit]_vars

\* The runs of init so far, by their position in calls.
InitRuns == {k \in 1..Len(calls) : calls[k].call = "init"}

\* C26: a run of init that finds .prtool.yaml fails with the 'already
\* exists' error and leaves the file as it was; a run that succeeds found no
\* file and left the sample; and a run that follows a successful run, with
\* nothing done to the file in between, fails.
C26_InitOnlyCreates ==
    /\ \A k \in InitRuns :
          /\ calls[k].before.exists =>
                /\ calls[k].err = Errorf("configuration file already exists",
                                         S_configPath)
                /\ calls[k].after = calls[k].before
          /\ calls[k].err = NoError =>
                /\ ~calls[k].before.exists
                /\ calls[k].after = FileWith(generateAnnotatedYAML)
    /\ \A k \in InitRuns :
          (k + 1 \in InitRuns /\ calls[k].err = NoError) =>
              calls[k + 1].err = Errorf("configuration file already exists",
                                        S_configPath)

\* Init ran twice in a directory without the file: the first run created
\* it, the second failed and left it.
C26_Witness ==
    /\ Len(calls) >= 2
    /\ calls[1].call = "init" /\ calls[2].call = "init"
    /\ ~calls[1].before.exists /\ calls[1].err = NoError
    /\ calls[2].err # NoError
    /\ yamlConfig = FileWith(generateAnnotatedYAML)

\* ---------------------------------------------------------------------
\* C27: for dry-run, verbose and CI, the merged value is true exactly when
\* one of the flags, the environment and the file has it true: a false of a
\* source of higher precedence never hides a true below it.
HasTrue(src, f) == src # Nil /\ src[f]

C27_BoolTrueIffAnyTrue ==
    Merged =>
        \A f \in BoolFields :
            cfg[f] <=> (HasTrue(cliConfig, f) \/ HasTrue(envConfig, f)
                          \/ HasTrue(yamlConfig, f))

\* The flags leave dry-run false, the file has it true, and it is true
\* after the merge.
C27_Witness ==
    /\ Merged
    /\ cliConfig # Nil /\ ~cliConfig.DryRun
    /\ envConfig # Nil /\ ~envConfig.DryRun
    /\ HasTrue(yamlConfig, "DryRun")
    /\ cfg.DryRun

\* ---------------------------------------------------------------------
\* C28: each of org, team, user and repo is set after the merge exactly
\* when one of the sources sets it, whatever the sources set for the other
\* three; a merged configuration with two of them set is what ValidateScope
\* then rejects as multiple scopes.
SetBySome(f) ==
    Sets(cliConfig, f) \/ Sets(envConfig, f) \/ Sets(yamlConfig, f)

C28_ScopesMergedIndependently ==
    /\ (Merged \/ pc = "mergedValidated") =>
          \A f \in {"Org", "Team", "User", "Repo"} :
              cfg[f] # Empty <=> SetBySome(f)
    /\ (pc = "mergedValidated" /\ Cardinality(FieldsSet(cfg)) > 1) =>
          (ret.err # NoError /\ ret.err[1].msg = ErrMultipleScopes)

\* The flags set the organisation, the file the user: both are set after
\* the merge and the validation rejected the configuration.
C28_Witness ==
    /\ pc = "mergedValidated"
    /\ Sets(cliConfig, "Org") /\ Sets(yamlConfig, "User")
    /\ cfg.Org = cliConfig.Org /\ cfg.User = yamlConfig.User
    /\ ret.err # NoError /\ ret.err[1].msg = ErrMultipleScopes

\* ---------------------------------------------------------------------
\* C29: a run issues its authentication request, ListRepos and ListPRs only
\* with a configuration that has exactly one of org, team, user and repo
\* set: Run validates the scope before it creates the client and fetches,
\* and Fetch, called with no scope or with several, returns the error of
\* ResolveRepos without a call.
GitHubCalls ==
    SelectSeq(calls, LAMBDA c : c.call \in {"Users.Get", "ListRepos", "ListPRs"})

C29_NoCallWithoutOneScope ==
    /\ (pc \notin {"client", "fetchCalled"} /\ GitHubCalls # <<>>) =>
          (cfg # Nil /\ ScopeCount(cfg) = 1)
    /\ (pc = "fetchCalled" /\ ScopeCount(ret.cfg) # 1) =>
          (calls = <<>> /\ ret.err # NoError /\ ret.prs = <<>>)

\* A run with a token and two scopes ended without a call.
C29_Witness ==
    /\ pc = "exit" /\ cfg # Nil
    /\ cfg.GitHubToken # Empty /\ ScopeCount(cfg) = 2
    /\ ret.exit = 1 /\ calls = <<>> /\ client = Nil

\* ---------------------------------------------------------------------
\* C30: when the since expression of the configuration cannot be parsed,
\* Fetch returns an error and no pull request, and it has called neither
\* ListRepos nor ListPRs.
SinceUnparsable ==
    cfg # Nil /\ ParseRelativeDuration(cfg.Since, now).err # ""

C30_InvalidSinceBeforeCalls ==
    (pc = "done" /\ SinceUnparsable) =>
        /\ ret.err # NoError /\ ret.prs = <<>>
        /\ calls = <<>>

=============================================================================
